---- MODULE Spec2Model ----
(***************************************************************************)
(* RAGService (src/src/services/rag.ts): relevance analysis over a Notion  *)
(* database.  analyzeRelevance checks the result cache, scores every page  *)
(* with one model call, chunk by chunk (batchAnalyzeRelevance), then       *)
(* filters, sorts and truncates the scored list.  Around the service: the  *)
(* /api/rag route, which builds a service per request; chunkArray and      *)
(* optimizeContext applied on their own; calls that overlap on one         *)
(* service; and the append route with the NotionService calls it makes.    *)
(*                                                                         *)
(* Scores and thresholds are held in tenths: 3 stands for 0.3, 10 for 1.   *)
(* A string is a sequence of tokens, so that joining and serialising are   *)
(* computed on the text and not on the values it was made from.            *)
(***************************************************************************)
EXTENDS Integers, Sequences, FiniteSets, TLC

(***************************************************************************)
(* Bounds of the exploration.                                              *)
(***************************************************************************)
\* pages of the database handed to a call on a fresh service
MaxPages == 4
\* pages of the database handed to a call on a service that is called repeatedly
MaxSeqPages == 2
\* analyzeRelevance calls made on one service
MaxCalls == 2
\* length of the arrays chunkArray is applied to on its own
MaxItems == 4
\* pages handed to optimizeContext on its own
MaxDocs == 3
\* pages of the database an append request is made on
MaxAppendPages == 2

(***************************************************************************)
(* Small helpers.                                                          *)
(***************************************************************************)
Min(a, b) == IF a < b THEN a ELSE b

Max(a, b) == IF a > b THEN a ELSE b

\* a value that is no list: the result of Map.get on a missing key, and the
\* "nothing returned yet" of a call
NoValue == <<[page |-> 0, relevanceScore |-> -1]>>

(***************************************************************************)
(* Text: numbers as JSON.stringify writes them, and Array.join.            *)
(***************************************************************************)
Digit == <<"0", "1", "2", "3", "4", "5", "6", "7", "8", "9">>

RECURSIVE NatTokens(_)
NatTokens(n) ==
    IF n < 10 THEN <<Digit[n + 1]>>
    ELSE NatTokens(n \div 10) \o <<Digit[(n % 10) + 1]>>

\* an integer (maxResults)
IntTokens(n) == IF n < 0 THEN <<"-">> \o NatTokens(0 - n) ELSE NatTokens(n)

\* the numbers Infinity and -Infinity: above and below every score and count
PosInfinity == 1000000

NegInfinity == 0 - PosInfinity

IsFinite(v) == v # PosInfinity /\ v # NegInfinity

\* a number held in tenths (threshold): 3 is written 0.3, 10 is written 1;
\* JSON.stringify writes a number that is not finite as null
TenthTokens(t) ==
    LET a == IF t < 0 THEN 0 - t ELSE t
        sign == IF t < 0 THEN <<"-">> ELSE <<>>
    IN  IF ~IsFinite(t) THEN <<"null">>
        ELSE IF a % 10 = 0 THEN sign \o NatTokens(a \div 10)
        ELSE sign \o NatTokens(a \div 10) \o <<".", Digit[(a % 10) + 1]>>

RECURSIVE Join(_, _)
Join(parts, sep) ==
    IF Len(parts) = 0 THEN <<>>
    ELSE IF Len(parts) = 1 THEN parts[1]
    ELSE parts[1] \o <<sep>> \o Join(Tail(parts), sep)

(***************************************************************************)
(* AnalysisOptions: an object is its properties in insertion order.        *)
(***************************************************************************)
HasOption(options, name) == \E i \in 1..Len(options) : options[i].k = name

OptionValue(options, name) ==
    LET i == CHOOSE j \in 1..Len(options) : options[j].k = name
    IN  options[i].v

\* JSON.stringify(options)
PropertyTokens(p) ==
    <<"\"", p.k, "\"", ":">> \o
    (IF p.k = "threshold" THEN TenthTokens(p.v)
     ELSE IF ~IsFinite(p.v) THEN <<"null">> ELSE IntTokens(p.v))

JsonStringify(options) ==
    <<"{">> \o Join([i \in 1..Len(options) |-> PropertyTokens(options[i])], ",") \o <<"}">>

\* the key without the options
generateCacheKey_NoOptions(operation, input, databaseId, options) ==
    <<operation, ":">> \o Join(<<input, databaseId>>, "|")

\* generateCacheKey('relevance', input, database.id, options)
generateCacheKey(operation, input, databaseId, options) ==
    <<operation, ":">> \o Join(<<input, databaseId, JsonStringify(options)>>, "|")

(***************************************************************************)
(* The constructor's configuration.                                        *)
(***************************************************************************)
DefaultConfig ==
    [llmModel |-> "gpt-4.1", relevanceThreshold |-> 3, maxContextLength |-> 4000,
     batchSize |-> 10, cacheEnabled |-> FALSE, temperature |-> 1, maxResults |-> 20]

\* { ...defaults, ...config }
MergeConfig(partial) ==
    [f \in DOMAIN DefaultConfig |->
        IF f \in DOMAIN partial THEN partial[f] ELSE DefaultConfig[f]]

\* options.threshold ?? config.relevanceThreshold, options.maxResults ?? config.maxResults
EffectiveOptions(options, cfg) ==
    [threshold  |-> IF HasOption(options, "threshold")
                    THEN OptionValue(options, "threshold") ELSE cfg.relevanceThreshold,
     maxResults |-> IF HasOption(options, "maxResults")
                    THEN OptionValue(options, "maxResults") ELSE cfg.maxResults]

(***************************************************************************)
(* Array helpers of the service.                                           *)
(***************************************************************************)
\* array.slice(from, to) with 0 <= from, on 0-based indexes
ArraySlice(array, from, to) ==
    LET len == Len(array)
        end == IF to < 0 THEN Max(len + to, 0) ELSE Min(to, len)
    IN  IF from >= end THEN <<>> ELSE SubSeq(array, from + 1, end)

\* chunkArray never leaves its loop when chunkSize <= 0 and the array is not empty
ChunkDiverges(array, chunkSize) == chunkSize <= 0 /\ Len(array) > 0

RECURSIVE ChunkFrom(_, _, _)
ChunkFrom(array, chunkSize, i) ==
    IF i < Len(array)
    THEN <<ArraySlice(array, i, i + chunkSize)>> \o ChunkFrom(array, chunkSize, i + chunkSize)
    ELSE <<>>

\* the whole array as one chunk
chunkArray_Whole(array, chunkSize) == IF array = <<>> THEN <<>> ELSE <<array>>

chunkArray(array, chunkSize) == ChunkFrom(array, chunkSize, 0)

\* results.filter(result => result.relevanceScore >= threshold)
RECURSIVE FilterByThreshold(_, _)
FilterByThreshold(list, threshold) ==
    IF list = <<>> THEN <<>>
    ELSE (IF Head(list).relevanceScore >= threshold THEN <<Head(list)>> ELSE <<>>)
         \o FilterByThreshold(Tail(list), threshold)

\* the comparator (a, b) => b.relevanceScore - a.relevanceScore
Compare(a, b) == b.relevanceScore - a.relevanceScore

\* Array.prototype.sort is stable: an element goes after every element that
\* does not compare greater than it
RECURSIVE InsertSorted(_, _)
InsertSorted(sorted, x) ==
    IF sorted = <<>> THEN <<x>>
    ELSE IF Compare(Head(sorted), x) <= 0
         THEN <<Head(sorted)>> \o InsertSorted(Tail(sorted), x)
         ELSE <<x>> \o sorted

RECURSIVE SortByScore(_)
SortByScore(list) ==
    IF list = <<>> THEN <<>>
    ELSE InsertSorted(SortByScore(SubSeq(list, 1, Len(list) - 1)), list[Len(list)])

\* filter, sort, slice(0, maxResults) of analyzeRelevance
FinalResults(relevanceResults, effective) ==
    ArraySlice(SortByScore(FilterByThreshold(relevanceResults, effective.threshold)),
               0, effective.maxResults)

(***************************************************************************)
(* The result cache, a Map from key to result list.                        *)
(***************************************************************************)
CacheHas(c, key) == key \in DOMAIN c

CacheGet(c, key) == IF key \in DOMAIN c THEN c[key] ELSE NoValue

\* a set that stores nothing
CacheSet_Lost(c, key, value) == c

CacheSet(c, key, value) ==
    [x \in DOMAIN c \cup {key} |-> IF x = key THEN value ELSE c[x]]

\* a check that does not look into the cache
CacheHit_Always(cfg, c, key) == cfg.cacheEnabled

\* this.config.cacheEnabled && this.cache.has(cacheKey)
CacheHit(cfg, c, key) == cfg.cacheEnabled /\ CacheHas(c, key)

\* a store that does not look at cacheEnabled
CacheStore_Always(cfg, c, key, value) == CacheSet(c, key, value)

\* if (this.config.cacheEnabled) this.cache.set(cacheKey, finalResults)
CacheStore(cfg, c, key, value) == IF cfg.cacheEnabled THEN CacheSet(c, key, value) ELSE c

(***************************************************************************)
(* Inputs.                                                                 *)
(***************************************************************************)
\* the Partial<RAGServiceConfig> objects a service is constructed with
ConfigList ==
    << [x \in {} |-> 0],
       [batchSize |-> 2],
       [batchSize |-> 1, cacheEnabled |-> TRUE, maxResults |-> 1],
       [batchSize |-> 2, cacheEnabled |-> TRUE],
       [batchSize |-> 0] >>

\* the same for a service that is called repeatedly
SeqConfigList ==
    << [batchSize |-> 2],
       [batchSize |-> 1, cacheEnabled |-> TRUE, maxResults |-> 1],
       [batchSize |-> 2, cacheEnabled |-> TRUE],
       [batchSize |-> 0] >>

Inputs == {<<"q">>}

DatabaseIds == {<<"d1">>, <<"d2">>}

\* the database of a service that is called repeatedly; its pages change between calls
SeqDatabaseIds == {<<"d1">>}

\* the options objects passed to a call: none, the defaults spelled out,
\* everything that scored, and a negative limit
OptionsSet ==
    { <<>>,
      <<[k |-> "threshold", v |-> 3], [k |-> "maxResults", v |-> 20]>>,
      <<[k |-> "threshold", v |-> 0], [k |-> "maxResults", v |-> 1]>>,
      <<[k |-> "maxResults", v |-> -1]>> }

\* the options objects passed to the calls of a service that is called repeatedly
SeqOptionsSet ==
    { <<>>,
      <<[k |-> "threshold", v |-> 3], [k |-> "maxResults", v |-> 20]>>,
      <<[k |-> "threshold", v |-> NegInfinity]>>,
      <<[k |-> "threshold", v |-> PosInfinity]>> }

\* database.pages of a database with n pages; a page is known by its position
PagesOf(n) == [i \in 1..n |-> i]

\* what one model call can come to: a score the schema accepts, a score it
\* rejects, a response that is no object, or an exception
Outcomes == {"score0", "score9", "score12", "nullish", "throws"}

RawScore(o) == CASE o = "score0" -> 0 [] o = "score9" -> 9 [] o = "score12" -> 12 [] OTHER -> 0

\* a schema without .max(1)
SchemaAccepts_NoMax(score) == 0 <= score

\* z.number().min(0).max(1) of relevanceSchema
SchemaAccepts(score) == 0 <= score /\ score <= 10

\* llm.invoke settles as rejected when the call throws or withStructuredOutput
\* cannot validate the response against relevanceSchema
InvokeRejects(o) == o = "throws" \/ (o \in {"score0", "score9", "score12"} /\ ~SchemaAccepts(RawScore(o)))

\* the object the page's promise resolves with: response.relevanceScore || 0,
\* and the inner catch when reading the response throws
PageResult(page, o) ==
    IF o = "nullish" THEN [page |-> page, relevanceScore |-> 0]
    ELSE [page |-> page, relevanceScore |-> IF RawScore(o) = 0 THEN 0 ELSE RawScore(o)]

\* an outer catch that pushes nothing
EmptyResults_Dropped(batch) == <<>>

\* the outer catch: batch.map(page => ({ page, relevanceScore: 0, ... }))
EmptyResults(batch) == [i \in 1..Len(batch) |-> [page |-> batch[i], relevanceScore |-> 0]]

(***************************************************************************)
(* State.                                                                  *)
(***************************************************************************)
VARIABLES
    config,          \* this.config
    cache,           \* this.cache
    pc,              \* "idle", "scoring" (awaiting Promise.all), "pacing" (awaiting the timer), "returned", "hung"
    ncalls,          \* analyzeRelevance calls made on the service
    call,            \* the running call: input, databaseId, options, pages, cacheKey, batches
    bi,              \* position of the chunk being processed in batches
    settled,         \* page -> result, for the resolved promises of the awaited chunk
    results,         \* results of batchAnalyzeRelevance
    inflight,        \* model calls of the running call issued and not settled
    orphans,         \* number of model calls of earlier calls issued and not settled
    returned,        \* the list the last call returned
    fromCache,       \* the last call returned at the cache check
    modelCalls,      \* model calls issued by the running call
    totalModelCalls, \* model calls issued by all calls
    totalCandidates, \* pages handed to all calls
    failedChunks,    \* chunks of the running call that went through the outer catch
    paced,           \* chunks of the running call after which the 100 ms timer ran
    modelScore,      \* page -> score the model returned to the running call
    firstResult,     \* caching service: (input, databaseId, options) -> list returned by the first such call
    known            \* the (input, databaseId, options) of the calls that returned before the running call

\* the state of the service and of the call running on it
ragVars == <<config, cache, pc, ncalls, call, bi, settled, results, inflight, orphans, returned,
             fromCache, modelCalls, totalModelCalls, totalCandidates, failedChunks, paced,
             modelScore, firstResult, known>>

\* the same without the configuration and the cache
callVars == <<pc, ncalls, call, bi, settled, results, inflight, orphans, returned, fromCache,
              modelCalls, totalModelCalls, totalCandidates, failedChunks, paced, modelScore,
              firstResult, known>>

VARIABLES
    chunkCall,       \* chunkArray applied on its own: array, chunkSize
    chunks,          \* what that application returned
    context,         \* optimizeContext applied on its own: pages (sorted in place by the call), maxLength
    optimized,       \* what that application returned
    callers,         \* caller -> the analyzeRelevance call it runs, for calls that overlap on one service
    lastSet,         \* key -> the list and the caller of the last cache.set made under it by an overlapping call
    apc,             \* position of the append route's handler
    request,         \* the body of the append request: databaseId, content, targetPageId
    notion,          \* the Notion workspace: page id -> title, keywords, blocks
    local,           \* the handler's local variables
    ops,             \* what the handler has issued so far
    response         \* the response of the append route

chunkVars == <<chunkCall, chunks>>

contextVars == <<context, optimized>>

parVars == <<callers, lastSet>>

appendVars == <<apc, request, notion, local, ops, response>>

VARIABLES
    put,             \* the handler of PUT /api/notion/page/[pageId] and the updatePage call it makes
    reqs,            \* append requests served at the same time: request -> the handler serving it
    route,           \* the handler of POST /api/rag
    method           \* a mergeContent or generateResponse call made on the service

handlerVars == <<put, reqs, route, method>>

\* everything outside the service
outerVars == <<chunkVars, contextVars, parVars, appendVars, handlerVars>>

vars == <<ragVars, outerVars>>

NoCall == [input |-> <<>>, databaseId |-> <<>>, options |-> <<>>, pages |-> <<>>,
           cacheKey |-> <<>>, batches |-> <<>>]

EmptyMap == [x \in {} |-> 0]

InitWith(cfg) ==
    /\ config = MergeConfig(cfg)
    /\ cache = EmptyMap
    /\ pc = "idle"
    /\ ncalls = 0
    /\ call = NoCall
    /\ bi = 0
    /\ settled = EmptyMap
    /\ results = <<>>
    /\ inflight = {}
    /\ orphans = 0
    /\ returned = NoValue
    /\ fromCache = FALSE
    /\ modelCalls = 0
    /\ totalModelCalls = 0
    /\ totalCandidates = 0
    /\ failedChunks = {}
    /\ paced = {}
    /\ modelScore = EmptyMap
    /\ firstResult = EmptyMap
    /\ known = {}

\* the callers whose analyzeRelevance calls overlap on one service
Callers == {1, 2}

\* a caller that has not called yet
IdleCaller ==
    [pc |-> "idle", options |-> <<>>, pages |-> <<>>, cacheKey |-> <<>>, batches |-> <<>>,
     bi |-> 0, settled |-> EmptyMap, results |-> <<>>, inflight |-> {}, issued |-> 0,
     returned |-> NoValue, fromCache |-> FALSE, sawEntry |-> FALSE, overlapped |-> FALSE]

\* targetPageId left out of the request body
NoTarget == 0

NoRequest == [databaseId |-> <<>>, content |-> <<>>, targetPageId |-> NoTarget]

\* the handler's locals before any is assigned
NoLocal ==
    [selectedPageId |-> 0, selectedPageTitle |-> <<>>, originalContent |-> <<>>,
     mergedContent |-> <<>>, pending |-> {}, newTitle |-> <<>>, newKeywords |-> <<>>,
     writing |-> "none", writeId |-> 0, failed |-> FALSE]

\* nothing issued yet: getDatabase calls, the pages of the handler's getPage
\* calls, mergeContent calls, the pages of the updatePage calls, createPage
\* calls, title and keyword generations issued, and those completed
NoOps ==
    [getDatabase |-> 0, getPage |-> <<>>, mergeContent |-> 0, updatePage |-> <<>>,
     createPage |-> 0, createPageTitle |-> 0, createPageKeywords |-> 0, generated |-> {}]

NoResponse == [status |-> 0, success |-> FALSE, pageId |-> 0, title |-> <<>>, message |-> <<>>]

ChunkIdle ==
    /\ chunkCall = [array |-> <<>>, chunkSize |-> 1, done |-> FALSE]
    /\ chunks = <<>>

ContextIdle ==
    /\ context = [pages |-> <<>>, maxLength |-> 0, done |-> FALSE]
    /\ optimized = <<>>

ParIdle ==
    /\ callers = [p \in Callers |-> IdleCaller]
    /\ lastSet = EmptyMap

AppendIdle ==
    /\ apc = "idle"
    /\ request = NoRequest
    /\ notion = EmptyMap
    /\ local = NoLocal
    /\ ops = NoOps
    /\ response = NoResponse

\* a page as Notion stores it, before anything is known of it
NoPage == [title |-> <<>>, keywords |-> <<>>, blocks |-> <<>>]

\* the PUT handler before a request: its position, the page id of the path,
\* the body, the page as it was when the request arrived, the blocks that
\* blocks.children.list returned and are not deleted yet, and the response
NoPut ==
    [pc |-> "idle", pageId |-> 0, updateData |-> [x \in {} |-> 0], before |-> NoPage,
     listed |-> 0, status |-> 0, success |-> FALSE]

\* the append requests served at the same time
AppendRequests == {1, 2}

\* the handler of an append request before the request arrives: its position,
\* the content of the body, the target's content as fetched, the merged text,
\* the ids of the blocks listed and not deleted yet, and the response
IdleHandler ==
    [pc |-> "idle", content |-> <<>>, originalContent |-> <<>>, mergedContent |-> <<>>,
     listed |-> <<>>, status |-> 0, success |-> FALSE]

\* no append request is being served
NoReqs == [r \in {} |-> 0]

\* the /api/rag handler before a request: its position, the body, the
\* relevant pages it holds, the pages whose content it has fetched, and the
\* response
NoRoute ==
    [pc |-> "idle", query |-> <<>>, databaseId |-> <<>>, ragConfig |-> [x \in {} |-> 0],
     relevantPages |-> <<>>, fetched |-> <<>>, status |-> 0, answer |-> <<>>,
     sources |-> <<>>, error |-> <<>>]

\* no error
NoError ==
    [code |-> "", message |-> <<>>, source |-> "", details |-> [name |-> "", message |-> <<>>]]

\* no mergeContent or generateResponse call made: the position of the call,
\* the method, the values its prompt was formatted with, the model invocations
\* it made, what it returned, the error it threw and how many times its caller
\* saw it throw
NoMethod ==
    [pc |-> "idle", name |-> "", prompt |-> <<>>, invoked |-> 0, answer |-> <<>>,
     sources |-> <<>>, error |-> NoError, thrown |-> 0]

HandlersIdle ==
    /\ put = NoPut
    /\ reqs = NoReqs
    /\ route = NoRoute
    /\ method = NoMethod

\* nothing outside the service has run
OuterIdle == ChunkIdle /\ ContextIdle /\ ParIdle /\ AppendIdle /\ HandlersIdle

Init == (\E i \in 1..Len(ConfigList) : InitWith(ConfigList[i])) /\ OuterIdle

(***************************************************************************)
(* Pieces of analyzeRelevance and batchAnalyzeRelevance.                   *)
(***************************************************************************)
\* the model calls of chunk k: batch.map(async (page) => ...)
BatchCalls(c, k) ==
    {[chunk |-> k, page |-> c.batches[k][i]] : i \in 1..Len(c.batches[k])}

\* the promise of this model call is one of those Promise.all is awaiting
Awaited(m) == pc = "scoring" /\ m.chunk = bi

\* batchResults, in the order of the chunk
BatchResults(batch, done) == [i \in 1..Len(batch) |-> done[batch[i]]]

\* batches.indexOf(batch) < batches.length - 1; the chunks are distinct arrays,
\* so indexOf gives the position of the chunk
NotLastBatch(c, k) == k - 1 < Len(c.batches) - 1

CallKey(c) == <<c.input, c.databaseId, c.options>>

\* return of analyzeRelevance
Return(c, list, hit) ==
    /\ pc' = "returned"
    /\ returned' = list
    /\ fromCache' = hit
    /\ firstResult' =
         IF config.cacheEnabled /\ CallKey(c) \notin DOMAIN firstResult
         THEN [x \in DOMAIN firstResult \cup {CallKey(c)} |->
                  IF x = CallKey(c) THEN list ELSE firstResult[x]]
         ELSE firstResult

\* lines 153-183: filter, sort, truncate, store, return
Complete(c, relevanceResults) ==
    LET finalResults == FinalResults(relevanceResults, EffectiveOptions(c.options, config))
    IN  /\ cache' = CacheStore(config, cache, c.cacheKey, finalResults)
        /\ Return(c, finalResults, FALSE)

(***************************************************************************)
(* analyzeRelevance(input, database, options), up to its first await that  *)
(* waits for the world: the cache check, chunkArray and the calls of the   *)
(* first chunk.                                                            *)
(***************************************************************************)
analyzeRelevance(input, databaseId, options, n) ==
    LET pages == PagesOf(n)
        key == generateCacheKey("relevance", input, databaseId, options)
        diverges == ChunkDiverges(pages, config.batchSize)
        c == [input |-> input, databaseId |-> databaseId, options |-> options,
              pages |-> pages, cacheKey |-> key,
              batches |-> IF diverges THEN <<>> ELSE chunkArray(pages, config.batchSize)]
    IN  /\ ncalls' = ncalls + 1
        /\ call' = c
        /\ settled' = EmptyMap
        /\ failedChunks' = {}
        /\ paced' = {}
        /\ modelScore' = EmptyMap
        /\ results' = <<>>
        /\ totalCandidates' = totalCandidates + n
        /\ orphans' = orphans + Cardinality(inflight)
        /\ known' = IF pc = "returned" THEN known \cup {CallKey(call)} ELSE known
        /\ UNCHANGED config
        /\ IF CacheHit(config, cache, key)
           THEN /\ Return(c, CacheGet(cache, key), TRUE)
                /\ bi' = 0
                /\ inflight' = {}
                /\ modelCalls' = 0
                /\ UNCHANGED <<cache, totalModelCalls>>
           ELSE IF diverges
           THEN /\ pc' = "hung"
                /\ bi' = 0
                /\ inflight' = {}
                /\ modelCalls' = 0
                /\ returned' = NoValue
                /\ fromCache' = FALSE
                /\ UNCHANGED <<cache, totalModelCalls, firstResult>>
           ELSE IF c.batches = <<>>
           THEN /\ Complete(c, <<>>)
                /\ bi' = 0
                /\ inflight' = {}
                /\ modelCalls' = 0
                /\ UNCHANGED totalModelCalls
           ELSE /\ pc' = "scoring"
                /\ bi' = 1
                /\ inflight' = BatchCalls(c, 1)
                /\ modelCalls' = Len(c.batches[1])
                /\ totalModelCalls' = totalModelCalls + Len(c.batches[1])
                /\ returned' = NoValue
                /\ fromCache' = FALSE
                /\ UNCHANGED <<cache, firstResult>>

(***************************************************************************)
(* A model call of the awaited chunk resolves.  When it is the last one,   *)
(* Promise.all resolves: the chunk's results are pushed and the loop waits *)
(* 100 ms before the next chunk, or the analysis completes.                *)
(***************************************************************************)
PageResolves(m, o) ==
    /\ m \in inflight
    /\ Awaited(m)
    /\ ~InvokeRejects(o)
    /\ LET batch == call.batches[bi]
           r == PageResult(m.page, o)
           done == [x \in DOMAIN settled \cup {m.page} |->
                       IF x = m.page THEN r ELSE settled[x]]
           all == \A i \in 1..Len(batch) : batch[i] \in DOMAIN done
       IN  /\ inflight' = inflight \ {m}
           /\ modelScore' =
                IF o = "nullish" THEN modelScore
                ELSE [x \in DOMAIN modelScore \cup {m.page} |->
                         IF x = m.page THEN RawScore(o) ELSE modelScore[x]]
           /\ IF ~all
              THEN /\ settled' = done
                   /\ UNCHANGED <<pc, results, cache, returned, fromCache, firstResult>>
              ELSE /\ settled' = EmptyMap
                   /\ results' = results \o BatchResults(batch, done)
                   /\ IF NotLastBatch(call, bi)
                      THEN /\ pc' = "pacing"
                           /\ UNCHANGED <<cache, returned, fromCache, firstResult>>
                      ELSE Complete(call, results \o BatchResults(batch, done))
    /\ UNCHANGED <<config, ncalls, call, bi, orphans, modelCalls, totalModelCalls,
                   totalCandidates, failedChunks, paced, known>>
    /\ UNCHANGED outerVars

(***************************************************************************)
(* The 100 ms timer fires: the loop goes on to the next chunk and issues   *)
(* its calls.                                                              *)
(***************************************************************************)
TimerFires ==
    /\ pc = "pacing"
    /\ pc' = "scoring"
    /\ paced' = paced \cup {bi}
    /\ bi' = bi + 1
    /\ inflight' = inflight \cup BatchCalls(call, bi + 1)
    /\ modelCalls' = modelCalls + Len(call.batches[bi + 1])
    /\ totalModelCalls' = totalModelCalls + Len(call.batches[bi + 1])
    /\ UNCHANGED <<config, cache, ncalls, call, settled, results, orphans, returned,
                   fromCache, totalCandidates, failedChunks, modelScore, firstResult, known>>
    /\ UNCHANGED outerVars

(***************************************************************************)
(* A model call of the awaited chunk rejects.  Promise.all rejects at once *)
(* and the outer catch pushes a zero result for every page of the chunk;   *)
(* the loop goes straight on to the next chunk, or the analysis completes. *)
(* The chunk's other calls stay in flight.                                 *)
(***************************************************************************)
PageRejects(m, o) ==
    /\ m \in inflight
    /\ Awaited(m)
    /\ InvokeRejects(o)
    /\ LET batch == call.batches[bi]
           pushed == results \o EmptyResults(batch)
       IN  /\ settled' = EmptyMap
           /\ results' = pushed
           /\ failedChunks' = failedChunks \cup {bi}
           /\ IF bi < Len(call.batches)
              THEN /\ bi' = bi + 1
                   /\ inflight' = (inflight \ {m}) \cup BatchCalls(call, bi + 1)
                   /\ modelCalls' = modelCalls + Len(call.batches[bi + 1])
                   /\ totalModelCalls' = totalModelCalls + Len(call.batches[bi + 1])
                   /\ UNCHANGED <<pc, cache, returned, fromCache, firstResult>>
              ELSE /\ Complete(call, pushed)
                   /\ inflight' = inflight \ {m}
                   /\ UNCHANGED <<bi, modelCalls, totalModelCalls>>
    /\ UNCHANGED <<config, ncalls, call, orphans, totalCandidates, paced, modelScore, known>>
    /\ UNCHANGED outerVars

(***************************************************************************)
(* A model call settles whose chunk is no longer awaited (its Promise.all  *)
(* has rejected already): nothing reads the outcome.                       *)
(***************************************************************************)
LateSettle(m) ==
    /\ m \in inflight
    /\ ~Awaited(m)
    /\ inflight' = inflight \ {m}
    /\ UNCHANGED <<config, cache, pc, ncalls, call, bi, settled, results, orphans, returned,
                   fromCache, modelCalls, totalModelCalls, totalCandidates, failedChunks,
                   paced, modelScore, firstResult, known>>
    /\ UNCHANGED outerVars

\* the same, for a model call issued by an earlier analyzeRelevance call
OrphanSettle ==
    /\ orphans > 0
    /\ orphans' = orphans - 1
    /\ UNCHANGED <<config, cache, pc, ncalls, call, bi, settled, results, inflight, returned,
                   fromCache, modelCalls, totalModelCalls, totalCandidates, failedChunks,
                   paced, modelScore, firstResult, known>>
    /\ UNCHANGED outerVars

(***************************************************************************)
(* One call on a freshly constructed service, as the routes make it.       *)
(***************************************************************************)
RouteCall ==
    /\ pc = "idle"
    /\ \E input \in Inputs, databaseId \in DatabaseIds, options \in OptionsSet, n \in 0..MaxPages :
          analyzeRelevance(input, databaseId, options, n)
    /\ UNCHANGED outerVars

(***************************************************************************)
(* Calls made one after the other on the same service.                     *)
(***************************************************************************)
SequentialCall ==
    /\ pc \in {"idle", "returned"}
    /\ ncalls < MaxCalls
    /\ \E input \in Inputs, databaseId \in SeqDatabaseIds, options \in SeqOptionsSet, n \in 0..MaxSeqPages :
          analyzeRelevance(input, databaseId, options, n)
    /\ UNCHANGED outerVars

Resolves == \E m \in inflight, o \in Outcomes : PageResolves(m, o)

Rejects == \E m \in inflight, o \in Outcomes : PageRejects(m, o)

Late == \E m \in inflight : LateSettle(m)

Next == RouteCall \/ Resolves \/ TimerFires \/ Rejects \/ Late

Spec == Init /\ [][Next]_vars

NextSeq == SequentialCall \/ Resolves \/ TimerFires \/ Rejects \/ Late \/ OrphanSettle

InitSeq == (\E i \in 1..Len(SeqConfigList) : InitWith(SeqConfigList[i])) /\ OuterIdle

SpecSeq == InitSeq /\ [][NextSeq]_vars

(***************************************************************************)
(* Calls made one after the other on a caching service, with queries and   *)
(* database ids that hold the character the key is joined with.  A text is *)
(* written one character to a token here.                                  *)
(***************************************************************************)
KeyConfigList ==
    << [cacheEnabled |-> TRUE, batchSize |-> 1],
       [cacheEnabled |-> TRUE, batchSize |-> 2] >>

KeyInputs == { <<"a">>, <<"a", "|", "b">> }

KeyDatabaseIds == { <<"c">>, <<"b", "|", "c">> }

KeyOptionsSet == { <<>>, <<[k |-> "threshold", v |-> 0]>> }

KeyCall ==
    /\ pc \in {"idle", "returned"}
    /\ ncalls < MaxCalls
    /\ \E input \in KeyInputs, databaseId \in KeyDatabaseIds, options \in KeyOptionsSet,
          n \in 0..MaxSeqPages :
          analyzeRelevance(input, databaseId, options, n)
    /\ UNCHANGED outerVars

NextKey == KeyCall \/ Resolves \/ TimerFires \/ Rejects \/ Late \/ OrphanSettle

InitKey == (\E i \in 1..Len(KeyConfigList) : InitWith(KeyConfigList[i])) /\ OuterIdle

SpecKey == InitKey /\ [][NextKey]_vars

(***************************************************************************)
(* The /api/rag route, one request after the other in one process.  Every  *)
(* request constructs its own RAGService from the request's ragConfig; the *)
(* constructor gives the service a new, empty cache.  The route then       *)
(* fetches the database and calls analyzeRelevance with options it builds  *)
(* from ragConfig.                                                         *)
(***************************************************************************)
\* { threshold: ragConfig?.relevanceThreshold || 0.3, maxResults: ragConfig?.maxResults || 5 }
RouteOptions(ragConfig) ==
    <<[k |-> "threshold",
       v |-> IF "relevanceThreshold" \in DOMAIN ragConfig /\ ragConfig.relevanceThreshold # 0
             THEN ragConfig.relevanceThreshold ELSE 3],
      [k |-> "maxResults",
       v |-> IF "maxResults" \in DOMAIN ragConfig /\ ragConfig.maxResults # 0
             THEN ragConfig.maxResults ELSE 5]>>

\* new RAGService(llm, notionService, ragConfig) of the next request
RagRouteNewService ==
    /\ pc = "returned"
    /\ ncalls < MaxCalls
    /\ \E i \in 1..Len(SeqConfigList) : config' = MergeConfig(SeqConfigList[i])
    /\ cache' = EmptyMap
    /\ pc' = "idle"
    /\ known' = known \cup {CallKey(call)}
    /\ UNCHANGED <<ncalls, call, bi, settled, results, inflight, orphans, returned, fromCache,
                   modelCalls, totalModelCalls, totalCandidates, failedChunks, paced,
                   modelScore, firstResult>>
    /\ UNCHANGED outerVars

\* getDatabase, then analyzeRelevance(query, database, options) on the request's service
RagRouteCall ==
    /\ pc = "idle"
    /\ \E i \in 1..Len(SeqConfigList), input \in Inputs, databaseId \in SeqDatabaseIds,
          n \in 0..MaxSeqPages :
          /\ config = MergeConfig(SeqConfigList[i])
          /\ analyzeRelevance(input, databaseId, RouteOptions(SeqConfigList[i]), n)
    /\ UNCHANGED outerVars

NextReq ==
    RagRouteNewService \/ RagRouteCall \/ Resolves \/ TimerFires \/ Rejects \/ Late \/ OrphanSettle

SpecReq == InitSeq /\ [][NextReq]_vars

(***************************************************************************)
(* analyzeRelevance calls that overlap on one service: each caller runs    *)
(* the method from its cache check to its return, and the callers' steps   *)
(* interleave at the awaits.  A model call left in flight when its chunk's *)
(* Promise.all rejects is read by nobody and is not followed further.      *)
(***************************************************************************)
ParConfigList ==
    << [batchSize |-> 1, cacheEnabled |-> TRUE],
       [batchSize |-> 2, cacheEnabled |-> TRUE],
       [batchSize |-> 2] >>

\* no options, and a threshold that keeps every score
ParOptionsSet == { <<>>, <<[k |-> "threshold", v |-> 0]>> }

ParPageCounts == {1, 2}

\* the pages of chunk k of a caller's call
ChunkPages(c, k) == {c.batches[k][i] : i \in 1..Len(c.batches[k])}

\* another caller is between its cache check and its return, under the same key
Overlaps(p, key) ==
    \E q \in Callers \ {p} :
        callers[q].pc \in {"scoring", "pacing"} /\ callers[q].cacheKey = key

\* lines 153-183 for caller p: filter, sort, truncate, store, return
ParComplete(p, c, relevanceResults) ==
    LET finalResults == FinalResults(relevanceResults, EffectiveOptions(c.options, config))
    IN  /\ cache' = CacheStore(config, cache, c.cacheKey, finalResults)
        /\ lastSet' =
              IF config.cacheEnabled
              THEN [x \in DOMAIN lastSet \cup {c.cacheKey} |->
                       IF x = c.cacheKey THEN [list |-> finalResults, by |-> p] ELSE lastSet[x]]
              ELSE lastSet
        /\ callers' = [callers EXCEPT ![p] =
              [c EXCEPT !.pc = "returned", !.returned = finalResults,
                        !.results = relevanceResults, !.settled = EmptyMap, !.inflight = {}]]

\* caller p calls analyzeRelevance
ParCall(p, input, databaseId, options, n) ==
    LET pages == PagesOf(n)
        key == generateCacheKey("relevance", input, databaseId, options)
        c == [IdleCaller EXCEPT !.options = options, !.pages = pages, !.cacheKey = key,
                                !.batches = chunkArray(pages, config.batchSize),
                                !.sawEntry = CacheHas(cache, key),
                                !.overlapped = Overlaps(p, key)]
    IN  /\ callers[p].pc = "idle"
        /\ IF CacheHit(config, cache, key)
           THEN /\ callers' = [callers EXCEPT ![p] =
                     [c EXCEPT !.pc = "returned", !.returned = CacheGet(cache, key),
                               !.fromCache = TRUE]]
                /\ UNCHANGED <<cache, lastSet>>
           ELSE IF c.batches = <<>>
           THEN ParComplete(p, c, <<>>)
           ELSE /\ callers' = [callers EXCEPT ![p] =
                     [c EXCEPT !.pc = "scoring", !.bi = 1, !.inflight = ChunkPages(c, 1),
                               !.issued = Len(c.batches[1])]]
                /\ UNCHANGED <<cache, lastSet>>
        /\ UNCHANGED <<config, callVars, chunkVars, contextVars, appendVars, handlerVars>>

\* a model call of the chunk caller p awaits resolves
ParPageResolves(p, page, o) ==
    LET c == callers[p]
        batch == c.batches[c.bi]
        done == [x \in DOMAIN c.settled \cup {page} |->
                    IF x = page THEN PageResult(page, o) ELSE c.settled[x]]
        all == \A i \in 1..Len(batch) : batch[i] \in DOMAIN done
        pushed == c.results \o BatchResults(batch, done)
    IN  /\ c.pc = "scoring"
        /\ page \in c.inflight
        /\ ~InvokeRejects(o)
        /\ IF ~all
           THEN /\ callers' = [callers EXCEPT ![p] =
                     [c EXCEPT !.inflight = @ \ {page}, !.settled = done]]
                /\ UNCHANGED <<cache, lastSet>>
           ELSE IF NotLastBatch(c, c.bi)
           THEN /\ callers' = [callers EXCEPT ![p] =
                     [c EXCEPT !.pc = "pacing", !.inflight = {}, !.settled = EmptyMap,
                               !.results = pushed]]
                /\ UNCHANGED <<cache, lastSet>>
           ELSE ParComplete(p, c, pushed)
        /\ UNCHANGED <<config, callVars, chunkVars, contextVars, appendVars, handlerVars>>

\* the 100 ms timer of caller p fires
ParTimerFires(p) ==
    LET c == callers[p]
    IN  /\ c.pc = "pacing"
        /\ callers' = [callers EXCEPT ![p] =
              [c EXCEPT !.pc = "scoring", !.bi = @ + 1, !.inflight = ChunkPages(c, c.bi + 1),
                        !.issued = @ + Len(c.batches[c.bi + 1])]]
        /\ UNCHANGED <<config, cache, lastSet, callVars, chunkVars, contextVars, appendVars, handlerVars>>

\* a model call of the chunk caller p awaits rejects
ParPageRejects(p, page, o) ==
    LET c == callers[p]
        pushed == c.results \o EmptyResults(c.batches[c.bi])
    IN  /\ c.pc = "scoring"
        /\ page \in c.inflight
        /\ InvokeRejects(o)
        /\ IF c.bi < Len(c.batches)
           THEN /\ callers' = [callers EXCEPT ![p] =
                     [c EXCEPT !.bi = @ + 1, !.inflight = ChunkPages(c, c.bi + 1),
                               !.issued = @ + Len(c.batches[c.bi + 1]),
                               !.settled = EmptyMap, !.results = pushed]]
                /\ UNCHANGED <<cache, lastSet>>
           ELSE ParComplete(p, c, pushed)
        /\ UNCHANGED <<config, callVars, chunkVars, contextVars, appendVars, handlerVars>>

ParCalls ==
    \E p \in Callers, input \in Inputs, databaseId \in SeqDatabaseIds,
       options \in ParOptionsSet, n \in ParPageCounts :
        ParCall(p, input, databaseId, options, n)

ParResolves ==
    \E p \in Callers, o \in Outcomes : \E page \in callers[p].inflight : ParPageResolves(p, page, o)

ParTimers == \E p \in Callers : ParTimerFires(p)

ParRejects ==
    \E p \in Callers, o \in Outcomes : \E page \in callers[p].inflight : ParPageRejects(p, page, o)

NextPar == ParCalls \/ ParResolves \/ ParTimers \/ ParRejects

InitPar == (\E i \in 1..Len(ParConfigList) : InitWith(ParConfigList[i])) /\ OuterIdle

SpecPar == InitPar /\ [][NextPar]_vars

(***************************************************************************)
(* chunkArray applied on its own to an array and a chunk size of at least  *)
(* one.                                                                    *)
(***************************************************************************)
\* the arrays of at most n elements
ArraysUpTo(n) == UNION {[1..k -> {"a", "b"}] : k \in 0..n}

ChunkArrayCall ==
    /\ ~chunkCall.done
    /\ chunkCall' = [chunkCall EXCEPT !.done = TRUE]
    /\ chunks' = chunkArray(chunkCall.array, chunkCall.chunkSize)
    /\ UNCHANGED <<ragVars, contextVars, parVars, appendVars, handlerVars>>

NextChunk == ChunkArrayCall

InitChunk ==
    /\ InitWith(EmptyMap)
    /\ \E array \in ArraysUpTo(MaxItems), chunkSize \in 1..(MaxItems + 1) :
          chunkCall = [array |-> array, chunkSize |-> chunkSize, done |-> FALSE]
    /\ chunks = <<>>
    /\ ContextIdle /\ ParIdle /\ AppendIdle /\ HandlersIdle

SpecChunk == InitChunk /\ [][NextChunk]_vars

(***************************************************************************)
(* optimizeContext(pages, maxLength) applied on its own.  A content string *)
(* is known by the page it was read from, the number of characters taken   *)
(* from its start, and whether '...' was put after them.                   *)
(***************************************************************************)
\* '...'.length
EllipsisLength == 3

\* the floor of 100 characters under which a page is not cut but dropped
MinRemainingLength == 100

\* content.length
StrLength(content) == content.len + (IF content.ellipsis THEN EllipsisLength ELSE 0)

\* content.substring(0, end) of a string without '...'
Substring(content, end) == [content EXCEPT !.len = Min(Max(end, 0), content.len)]

\* content + '...'
WithEllipsis(content) == [content EXCEPT !.ellipsis = TRUE]

\* a floor that lets exactly 100 characters through
KeepsTruncated_AtLeast(remainingLength) == remainingLength >= MinRemainingLength

\* if (remainingLength > 100)
KeepsTruncated(remainingLength) == remainingLength > MinRemainingLength

\* the loop over the sorted pages, from page i on
RECURSIVE Pack(_, _, _, _, _)
Pack(pages, maxLength, i, currentLength, acc) ==
    IF i > Len(pages) THEN acc
    ELSE LET pageResult == pages[i]
             pageContent == pageResult.page.content
             pageLength == StrLength(pageContent)
             remainingLength == maxLength - currentLength
             truncatedPage ==
                 [pageResult EXCEPT !.page.content =
                     WithEllipsis(Substring(pageContent, remainingLength))]
         IN  IF currentLength + pageLength <= maxLength
             THEN Pack(pages, maxLength, i + 1, currentLength + pageLength,
                       Append(acc, pageResult))
             ELSE IF KeepsTruncated(remainingLength)
                  THEN Append(acc, truncatedPage)
                  ELSE acc

optimizeContext(pages, maxLength) == Pack(SortByScore(pages), maxLength, 1, 0, <<>>)

\* lengths of the contents of the pages, an empty content among them
ContentLengths == {0, 100, 150, 300}

DocScores == {2, 9}

\* maxLength: nothing, the floor, just above it, and budgets that leave
\* exactly the floor and just above it after a page of 150 characters
MaxLengths == {0, 100, 101, 250, 251, 450}

\* the lists of n relevance results, page i holding its whole content
DocLists(n) ==
    {[i \in 1..n |->
        [page |-> [id |-> i, content |-> [text |-> i, len |-> f[i][1], ellipsis |-> FALSE]],
         relevanceScore |-> f[i][2]]] : f \in [1..n -> ContentLengths \X DocScores]}

\* the call sorts the array it was given in place
OptimizeContextCall ==
    /\ ~context.done
    /\ context' = [context EXCEPT !.pages = SortByScore(@), !.done = TRUE]
    /\ optimized' = optimizeContext(context.pages, context.maxLength)
    /\ UNCHANGED <<ragVars, chunkVars, parVars, appendVars, handlerVars>>

NextContext == OptimizeContextCall

InitContext ==
    /\ InitWith(EmptyMap)
    /\ \E n \in 0..MaxDocs, maxLength \in MaxLengths : \E pages \in DocLists(n) :
          context = [pages |-> pages, maxLength |-> maxLength, done |-> FALSE]
    /\ optimized = <<>>
    /\ ChunkIdle /\ ParIdle /\ AppendIdle /\ HandlersIdle

SpecContext == InitContext /\ [][NextContext]_vars

(***************************************************************************)
(* The append route (POST /api/append) serving one request, with the       *)
(* NotionService calls it makes.  The API keys are configured.  Every call *)
(* to Notion or to the model either succeeds or throws.  A page's content  *)
(* is stored as blocks, one per line of markdown; the pages of a database  *)
(* are numbered from 1 and a page's number is its id.                      *)
(***************************************************************************)
\* if (targetPageId) that never takes the branch
HasTarget_Never(targetPageId) == FALSE

\* if (targetPageId)
HasTarget(targetPageId) == targetPageId # NoTarget

\* options that let two pages through
AppendOptions_Two == <<[k |-> "threshold", v |-> 1], [k |-> "maxResults", v |-> 2]>>

\* { threshold: 0.1, maxResults: 1 }
AppendOptions == <<[k |-> "threshold", v |-> 1], [k |-> "maxResults", v |-> 1]>>

\* convertMarkdownToNotionBlocks
markdownToBlocks(markdown) ==
    [i \in 1..Len(markdown) |-> [type |-> "paragraph", text |-> markdown[i]]]

\* n2m.pageToMarkdown and toMarkdownString
toMarkdownString(blocks) == [i \in 1..Len(blocks) |-> blocks[i].text]

\* text.split(',')
RECURSIVE Split(_)
Split(text) ==
    IF \A i \in 1..Len(text) : text[i] # ","
    THEN <<text>>
    ELSE LET i == CHOOSE j \in 1..Len(text) :
                     text[j] = "," /\ \A j2 \in 1..(j - 1) : text[j2] # ","
         IN  <<SubSeq(text, 1, i - 1)>> \o Split(SubSeq(text, i + 1, Len(text)))

\* what getPage returns for a page: extractPageData(page, 'page', content)
PageData(id) ==
    [id |-> id, title |-> notion[id].title, content |-> toMarkdownString(notion[id].blocks)]

\* the message of the success response: one text when a target was given, one
\* text in every other case
ResponseMessage(targetPageId) ==
    IF HasTarget(targetPageId)
    THEN <<"added the information to the specified page">>
    ELSE <<"added the information to the most suitable page found by relevance analysis">>

ErrorResponse(status, error) ==
    [status |-> status, success |-> FALSE, pageId |-> 0, title |-> <<>>, message |-> error]

SuccessResponse(targetPageId, pageId, title) ==
    [status |-> 200, success |-> TRUE, pageId |-> pageId, title |-> title,
     message |-> ResponseMessage(targetPageId)]

\* return NextResponse.json(...)
Respond(r) == apc' = "responded" /\ response' = r

\* the catch of the handler: a call has thrown
Fail(error) ==
    /\ Respond(ErrorResponse(500, error))
    /\ local' = [local EXCEPT !.failed = TRUE]

\* the page the handler fetches, merges into and writes back
FetchedId ==
    IF HasTarget(request.targetPageId) THEN request.targetPageId ELSE local.selectedPageId

\* the markdown the running updatePage or createPage writes
WriteContent == IF apc = "createPage" THEN request.content ELSE local.mergedContent

\* what the model can answer to the merge prompt, the empty string included
MergeOutputs == { <<>>, <<"m">>, <<"m", "n">> }

\* what the model can answer to the title and keyword prompts
GeneratedTexts == { <<"T">>, <<"k1", ",", "k2">> }

\* the request bodies: with and without content and database id
AppendContents == { <<>>, <<"x">> }

AppendDatabaseIds == { <<>>, <<"d1">> }

\* the contents a page can have when the request arrives
StoredBlocks == { <<>>, markdownToBlocks(<<"a">>), markdownToBlocks(<<"a", "b">>) }

\* a check that looks at the database id only
MissingRequired_DatabaseOnly(databaseId, content) == databaseId = <<>>

\* if (!databaseId || !content): a property left out of the body and an empty
\* string are both falsy, and both are the empty text here
MissingRequired(databaseId, content) == databaseId = <<>> \/ content = <<>>

(***************************************************************************)
(* The handler, from the request to its first call.                        *)
(***************************************************************************)
AppendReceive(databaseId, content, targetPageId) ==
    /\ apc = "idle"
    /\ request' = [databaseId |-> databaseId, content |-> content,
                   targetPageId |-> targetPageId]
    /\ IF MissingRequired(databaseId, content)
       THEN /\ Respond(ErrorResponse(400, <<"databaseId and content are required">>))
            /\ UNCHANGED ops
       ELSE IF HasTarget(targetPageId)
       THEN /\ apc' = "getPage"
            /\ ops' = [ops EXCEPT !.getPage = Append(@, targetPageId)]
            /\ UNCHANGED response
       ELSE /\ apc' = "getDatabase"
            /\ ops' = [ops EXCEPT !.getDatabase = @ + 1]
            /\ UNCHANGED response
    /\ UNCHANGED <<local, notion, ragVars, chunkVars, contextVars, parVars, handlerVars>>

\* getPage of the target or of the selected page settles; mergeContent is called
AppendGetPageSettles(ok) ==
    /\ apc = "getPage"
    /\ IF ok
       THEN /\ local' = [local EXCEPT
                  !.selectedPageId = FetchedId,
                  !.selectedPageTitle =
                      IF HasTarget(request.targetPageId) THEN PageData(FetchedId).title ELSE @,
                  !.originalContent = PageData(FetchedId).content]
            /\ ops' = [ops EXCEPT !.mergeContent = @ + 1]
            /\ apc' = "mergeContent"
            /\ UNCHANGED response
       ELSE /\ Fail(<<"Failed to fetch page">>)
            /\ UNCHANGED ops
    /\ UNCHANGED <<request, notion, ragVars, chunkVars, contextVars, parVars, handlerVars>>

\* mergeContent settles with the model's text; updatePage is called with it
AppendMergeSettles(ok, mergedContent) ==
    /\ apc = "mergeContent"
    /\ IF ok
       THEN /\ local' = [local EXCEPT !.mergedContent = mergedContent,
                                     !.writing = "properties",
                                     !.writeId = local.selectedPageId]
            /\ ops' = [ops EXCEPT !.updatePage = Append(@, local.selectedPageId)]
            /\ apc' = "updatePage"
            /\ UNCHANGED response
       ELSE /\ Fail(<<"Failed to merge content">>)
            /\ UNCHANGED ops
    /\ UNCHANGED <<request, notion, ragVars, chunkVars, contextVars, parVars, handlerVars>>

(***************************************************************************)
(* NotionService.updatePage and createPage, call by call.                  *)
(***************************************************************************)
\* updatePage: pages.update with the title and keywords given (none here);
\* the content is written only if (updateData.content)
NotionUpdateProperties(ok) ==
    /\ apc = "updatePage"
    /\ local.writing = "properties"
    /\ IF ok
       THEN /\ local' = [local EXCEPT !.writing =
                  IF WriteContent # <<>> THEN "clear" ELSE "refetch"]
            /\ UNCHANGED <<apc, response>>
       ELSE Fail(<<"Failed to update page">>)
    /\ UNCHANGED <<request, notion, ops, ragVars, chunkVars, contextVars, parVars, handlerVars>>

\* createPage: pages.create with the title and the keywords joined by ','
NotionCreate(ok) ==
    /\ apc = "createPage"
    /\ local.writing = "create"
    /\ IF ok
       THEN LET id == Cardinality(DOMAIN notion) + 1
                page == [title |-> local.newTitle,
                         keywords |-> IF Len(local.newKeywords) > 0
                                      THEN Join(local.newKeywords, ",") ELSE <<>>,
                         blocks |-> <<>>]
            IN  /\ notion' = [x \in DOMAIN notion \cup {id} |->
                                 IF x = id THEN page ELSE notion[x]]
                /\ local' = [local EXCEPT !.writing = "clear", !.writeId = id]
                /\ UNCHANGED <<apc, response>>
       ELSE /\ Fail(<<"Failed to create page">>)
            /\ UNCHANGED notion
    /\ UNCHANGED <<request, ops, ragVars, chunkVars, contextVars, parVars, handlerVars>>

\* updatePageContent: blocks.children.list, then blocks.delete block by block;
\* a call that throws leaves the blocks after the first k deleted
NotionClearBlocks(ok, k) ==
    /\ apc \in {"updatePage", "createPage"}
    /\ local.writing = "clear"
    /\ LET blocks == notion[local.writeId].blocks
       IN  IF ok
           THEN /\ k = 0
                /\ notion' = [notion EXCEPT ![local.writeId].blocks = <<>>]
                /\ local' = [local EXCEPT !.writing = "append"]
                /\ UNCHANGED <<apc, response>>
           ELSE /\ k < Max(Len(blocks), 1)
                /\ notion' = [notion EXCEPT ![local.writeId].blocks =
                                 SubSeq(blocks, k + 1, Len(blocks))]
                /\ Fail(<<"Failed to update page content">>)
    /\ UNCHANGED <<request, ops, ragVars, chunkVars, contextVars, parVars, handlerVars>>

\* updatePageContent: blocks.children.append of the converted markdown
NotionAppendBlocks(ok) ==
    /\ apc \in {"updatePage", "createPage"}
    /\ local.writing = "append"
    /\ IF ok
       THEN /\ notion' = [notion EXCEPT ![local.writeId].blocks =
                             @ \o markdownToBlocks(WriteContent)]
            /\ local' = [local EXCEPT !.writing = "refetch"]
            /\ UNCHANGED <<apc, response>>
       ELSE /\ Fail(<<"Failed to update page content">>)
            /\ UNCHANGED notion
    /\ UNCHANGED <<request, ops, ragVars, chunkVars, contextVars, parVars, handlerVars>>

\* the getPage that ends updatePage and createPage; the handler then builds
\* its success response
NotionRefetch(ok) ==
    /\ apc \in {"updatePage", "createPage"}
    /\ local.writing = "refetch"
    /\ IF ok
       THEN LET page == PageData(local.writeId)
                selectedPageId == IF apc = "createPage" THEN page.id ELSE local.selectedPageId
                selectedPageTitle ==
                    IF apc = "createPage" THEN page.title ELSE local.selectedPageTitle
            IN  /\ local' = [local EXCEPT !.writing = "none",
                                          !.selectedPageId = selectedPageId,
                                          !.selectedPageTitle = selectedPageTitle]
                /\ Respond(SuccessResponse(request.targetPageId, selectedPageId,
                                           selectedPageTitle))
       ELSE Fail(<<"Failed to fetch page">>)
    /\ UNCHANGED <<request, notion, ops, ragVars, chunkVars, contextVars, parVars, handlerVars>>

(***************************************************************************)
(* No target given: the database is fetched and the page is selected by    *)
(* relevance analysis, or a new page is created.                           *)
(***************************************************************************)
\* getDatabase settles: an empty database is answered with 404; otherwise
\* analyzeRelevance is called on the handler's own, newly constructed service
AppendGetDatabaseSettles(ok) ==
    /\ apc = "getDatabase"
    /\ IF ok
       THEN IF Cardinality(DOMAIN notion) = 0
            THEN /\ Respond(ErrorResponse(404, <<"No pages found in the database">>))
                 /\ UNCHANGED <<local, ragVars>>
            ELSE /\ analyzeRelevance(request.content, request.databaseId, AppendOptions,
                                     Cardinality(DOMAIN notion))
                 /\ apc' = "analyzeRelevance"
                 /\ UNCHANGED <<local, response>>
       ELSE /\ Fail(<<"Failed to fetch database">>)
            /\ UNCHANGED ragVars
    /\ UNCHANGED <<request, notion, ops, chunkVars, contextVars, parVars, handlerVars>>

\* analyzeRelevance has returned: with no relevant page the title and the
\* keywords are generated, both at once; otherwise the first page is fetched
AppendAnalyzed ==
    /\ apc = "analyzeRelevance"
    /\ pc = "returned"
    /\ IF Len(returned) = 0
       THEN /\ apc' = "naming"
            /\ local' = [local EXCEPT !.pending = {"title", "keywords"}]
            /\ ops' = [ops EXCEPT !.createPageTitle = @ + 1, !.createPageKeywords = @ + 1]
       ELSE /\ apc' = "getPage"
            /\ local' = [local EXCEPT !.selectedPageId = returned[1].page,
                                      !.selectedPageTitle = notion[returned[1].page].title]
            /\ ops' = [ops EXCEPT !.getPage = Append(@, returned[1].page)]
    /\ UNCHANGED <<request, notion, response, ragVars, chunkVars, contextVars, parVars, handlerVars>>

\* createPageTitle or createPageKeywords settles.  Promise.all rejects with
\* the first of them that throws; when both have resolved createPage is called.
AppendGenerated(which, ok, text) ==
    /\ apc = "naming"
    /\ which \in local.pending
    /\ IF ok
       THEN LET l == [local EXCEPT
                        !.pending = @ \ {which},
                        !.newTitle = IF which = "title" THEN text ELSE @,
                        !.newKeywords = IF which = "keywords" THEN Split(text) ELSE @]
            IN  /\ IF l.pending = {}
                   THEN /\ apc' = "createPage"
                        /\ local' = [l EXCEPT !.writing = "create"]
                        /\ ops' = [ops EXCEPT !.generated = @ \cup {which},
                                              !.createPage = @ + 1]
                   ELSE /\ local' = l
                        /\ ops' = [ops EXCEPT !.generated = @ \cup {which}]
                        /\ UNCHANGED apc
                /\ UNCHANGED response
       ELSE /\ Fail(<<"Unknown error occurred">>)
            /\ UNCHANGED ops
    /\ UNCHANGED <<request, notion, ragVars, chunkVars, contextVars, parVars, handlerVars>>

AppendReceives ==
    \E databaseId \in AppendDatabaseIds, content \in AppendContents,
       targetPageId \in {NoTarget} \cup DOMAIN notion :
        AppendReceive(databaseId, content, targetPageId)

GetPageSettles == \E ok \in BOOLEAN : AppendGetPageSettles(ok)

MergeSettles == \E ok \in BOOLEAN, mergedContent \in MergeOutputs : AppendMergeSettles(ok, mergedContent)

UpdateProperties == \E ok \in BOOLEAN : NotionUpdateProperties(ok)

Creates == \E ok \in BOOLEAN : NotionCreate(ok)

ClearBlocks == \E ok \in BOOLEAN, k \in 0..2 : NotionClearBlocks(ok, k)

AppendBlocks == \E ok \in BOOLEAN : NotionAppendBlocks(ok)

Refetches == \E ok \in BOOLEAN : NotionRefetch(ok)

GetDatabaseSettles == \E ok \in BOOLEAN : AppendGetDatabaseSettles(ok)

Generated ==
    \E which \in {"title", "keywords"}, ok \in BOOLEAN, text \in GeneratedTexts :
        AppendGenerated(which, ok, text)

NextAppend ==
    \/ AppendReceives \/ GetPageSettles \/ MergeSettles \/ UpdateProperties \/ Creates
    \/ ClearBlocks \/ AppendBlocks \/ Refetches \/ GetDatabaseSettles \/ AppendAnalyzed
    \/ Generated \/ Resolves \/ Rejects \/ Late

\* the databases of n pages
Workspaces(n) ==
    {[i \in 1..n |-> [title |-> <<"t">> \o NatTokens(i), keywords |-> <<>>, blocks |-> f[i]]] :
        f \in [1..n -> StoredBlocks]}

InitAppend ==
    /\ InitWith(EmptyMap)
    /\ ChunkIdle /\ ContextIdle /\ ParIdle /\ HandlersIdle
    /\ apc = "idle"
    /\ request = NoRequest
    /\ \E n \in 0..MaxAppendPages : notion \in Workspaces(n)
    /\ local = NoLocal
    /\ ops = NoOps
    /\ response = NoResponse

SpecAppend == InitAppend /\ [][NextAppend]_vars

(***************************************************************************)
(* PUT /api/notion/page/[pageId] serving one request: the handler calls    *)
(* NotionService.updatePage, which calls the Notion API several times, one *)
(* call after the other.  NOTION_API_KEY is configured and the body is a   *)
(* JSON object.  Every call to the API either succeeds or throws.          *)
(***************************************************************************)
\* the bodies of the request: UpdatePageRequest with some of title, keywords
\* and content, an empty content and an empty keyword list among them
UpdateBodies ==
    { [title |-> <<"T">>],
      [content |-> <<"m">>],
      [title |-> <<"T">>, keywords |-> << <<"k1">>, <<"k2">> >>, content |-> <<"m", "n">>],
      [title |-> <<"T">>, content |-> <<>>],
      [keywords |-> <<>>] }

\* if (updateData.title), if (updateData.content): given and not the empty string
GivenText(updateData, name) == name \in DOMAIN updateData /\ updateData[name] # <<>>

\* if (updateData.keywords): given; an array is truthy even when empty
GivenKeywords(updateData) == "keywords" \in DOMAIN updateData

\* the page after pages.update({ page_id, properties: updateProperties })
UpdatedProperties(page, updateData) ==
    [page EXCEPT
        !.title = IF GivenText(updateData, "title") THEN updateData.title ELSE @,
        !.keywords = IF GivenKeywords(updateData) THEN Join(updateData.keywords, ",") ELSE @]

\* the catch of the handler: status 500
PutFails == put' = [put EXCEPT !.pc = "responded", !.status = 500, !.success = FALSE]

\* what a step of the PUT handler leaves alone
PutFrame ==
    UNCHANGED <<ragVars, chunkVars, contextVars, parVars, apc, request, local, ops, response,
                reqs, route, method>>

\* the handler reads the page id and the body and calls updatePage
PutReceive(pageId, updateData) ==
    /\ put.pc = "idle"
    /\ put' = [put EXCEPT !.pc = "update", !.pageId = pageId, !.updateData = updateData,
                           !.before = notion[pageId]]
    /\ UNCHANGED notion
    /\ PutFrame

\* updatePage: await this.notion.pages.update(...), then the content if given
PutUpdateProperties(ok) ==
    /\ put.pc = "update"
    /\ IF ok
       THEN /\ notion' = [notion EXCEPT ![put.pageId] = UpdatedProperties(@, put.updateData)]
            /\ put' = [put EXCEPT !.pc =
                   IF GivenText(put.updateData, "content") THEN "list" ELSE "refetch"]
       ELSE /\ PutFails
            /\ UNCHANGED notion
    /\ PutFrame

\* updatePageContent: await this.notion.blocks.children.list(...)
PutListBlocks(ok) ==
    /\ put.pc = "list"
    /\ IF ok
       THEN put' = [put EXCEPT !.listed = Len(notion[put.pageId].blocks),
                               !.pc = IF Len(notion[put.pageId].blocks) > 0
                                      THEN "delete" ELSE "append"]
       ELSE PutFails
    /\ UNCHANGED notion
    /\ PutFrame

\* updatePageContent: await this.notion.blocks.delete(...) of the next listed block
PutDeleteBlock(ok) ==
    /\ put.pc = "delete"
    /\ IF ok
       THEN /\ notion' = [notion EXCEPT ![put.pageId].blocks = Tail(@)]
            /\ put' = [put EXCEPT !.listed = @ - 1,
                                   !.pc = IF put.listed > 1 THEN "delete" ELSE "append"]
       ELSE /\ PutFails
            /\ UNCHANGED notion
    /\ PutFrame

\* updatePageContent: the converted blocks appended, at most 100 in a call;
\* the contents here are of fewer blocks and go in one call
PutAppendBlocks(ok) ==
    /\ put.pc = "append"
    /\ IF ok
       THEN /\ notion' = [notion EXCEPT ![put.pageId].blocks =
                             @ \o markdownToBlocks(put.updateData.content)]
            /\ put' = [put EXCEPT !.pc = "refetch"]
       ELSE /\ PutFails
            /\ UNCHANGED notion
    /\ PutFrame

\* updatePage: return await this.getPage(pageId); the handler answers
PutRefetch(ok) ==
    /\ put.pc = "refetch"
    /\ IF ok
       THEN put' = [put EXCEPT !.pc = "responded", !.status = 200, !.success = TRUE]
       ELSE PutFails
    /\ UNCHANGED notion
    /\ PutFrame

NextPut ==
    \/ \E pageId \in DOMAIN notion, updateData \in UpdateBodies : PutReceive(pageId, updateData)
    \/ \E ok \in BOOLEAN : PutUpdateProperties(ok)
    \/ \E ok \in BOOLEAN : PutListBlocks(ok)
    \/ \E ok \in BOOLEAN : PutDeleteBlock(ok)
    \/ \E ok \in BOOLEAN : PutAppendBlocks(ok)
    \/ \E ok \in BOOLEAN : PutRefetch(ok)

InitPut ==
    /\ InitWith(EmptyMap)
    /\ ChunkIdle /\ ContextIdle /\ ParIdle /\ HandlersIdle
    /\ apc = "idle"
    /\ request = NoRequest
    /\ \E n \in 1..MaxAppendPages : notion \in Workspaces(n)
    /\ local = NoLocal
    /\ ops = NoOps
    /\ response = NoResponse

SpecPut == InitPut /\ [][NextPut]_vars

(***************************************************************************)
(* The three public methods of the service called directly, one call on a  *)
(* freshly constructed service: analyzeRelevance as above, mergeContent    *)
(* and generateResponse.  The latter two await one llm.invoke; a call of   *)
(* llm.invoke is counted as one invocation whatever the client does inside *)
(* it.                                                                     *)
(***************************************************************************)
\* `${error}`: the name and the message of the error
ErrorToString(e) == <<e.name, ": ">> \o e.message

\* an error without code and source, carrying a fixed text
createRAGError_Bare(code, message, source, details) ==
    [code |-> "", message |-> <<"request failed">>, source |-> "", details |-> details]

\* createRAGError(code, message, source, details)
createRAGError(code, message, source, details) ==
    [code |-> code, message |-> message, source |-> source, details |-> details]

\* the errors llm.invoke rejects with
InvokeErrors ==
    { [name |-> "Error", message |-> <<"429", " ", "rate limit">>],
      [name |-> "TypeError", message |-> <<"fetch failed">>] }

\* the TypeError of input.substring(0, 50) on an input that is no string
NotAStringError == [name |-> "TypeError", message |-> <<"input.substring is not a function">>]

\* what llm.invoke resolves with: a content that is a string, the empty
\* string among them, or a list of content parts
InvokeContents ==
    { [string |-> TRUE, text |-> <<"answer">>],
      [string |-> TRUE, text |-> <<>>],
      [string |-> FALSE, text |-> <<"part">>] }

\* typeof content === 'string' ? content : String(content)
ContentText(content) == IF content.string THEN content.text ELSE <<"[object Object]">>

\* a catch that calls the model again before it gives up
Throw_AfterRetry(m, error) ==
    IF m.invoked < 2
    THEN [m EXCEPT !.invoked = @ + 1]
    ELSE [m EXCEPT !.pc = "done", !.error = error, !.thrown = @ + 1]

\* the catch of a method: throw this.createRAGError(...), once, to the caller
Throw(m, error) == [m EXCEPT !.pc = "done", !.error = error, !.thrown = @ + 1]

\* what a step of mergeContent or generateResponse leaves alone
MethodFrame ==
    UNCHANGED <<ragVars, chunkVars, contextVars, parVars, appendVars, put, reqs, route>>

\* mergeContent(request): the prompt is formatted and llm.invoke is awaited
mergeContent(originalContent, additionalContent) ==
    /\ method.pc = "idle"
    /\ method' = [NoMethod EXCEPT !.pc = "invoking", !.name = "mergeContent",
                                  !.prompt = <<originalContent, additionalContent>>,
                                  !.invoked = 1]

\* llm.invoke(mergePrompt) resolves: the content is returned as a string
MergeInvokeResolves(content) ==
    /\ method.pc = "invoking"
    /\ method.name = "mergeContent"
    /\ method' = [method EXCEPT !.pc = "done", !.answer = ContentText(content)]
    /\ MethodFrame

\* llm.invoke(mergePrompt) rejects: the catch throws CONTENT_MERGE_FAILED
MergeInvokeRejects(e) ==
    /\ method.pc = "invoking"
    /\ method.name = "mergeContent"
    /\ method' = Throw(method,
          createRAGError("CONTENT_MERGE_FAILED",
                         <<"Failed to merge content: ">> \o ErrorToString(e), "merge", e))
    /\ MethodFrame

\* generateResponse(request): the context is cut to maxContextLength, the
\* prompt is formatted and llm.invoke is awaited
generateResponse(relevantPages) ==
    /\ method.pc = "idle"
    /\ method' = [NoMethod EXCEPT
          !.pc = "invoking", !.name = "generateResponse", !.invoked = 1,
          !.sources = optimizeContext(relevantPages, config.maxContextLength)]

\* llm.invoke(responsePrompt) resolves: { answer, sources: optimizedContext, metadata }
GenerateInvokeResolves(content) ==
    /\ method.pc = "invoking"
    /\ method.name = "generateResponse"
    /\ method' = [method EXCEPT !.pc = "done", !.answer = ContentText(content)]
    /\ MethodFrame

\* llm.invoke(responsePrompt) rejects: the catch throws RESPONSE_GENERATION_FAILED
GenerateInvokeRejects(e) ==
    /\ method.pc = "invoking"
    /\ method.name = "generateResponse"
    /\ method' = Throw([method EXCEPT !.sources = <<>>],
          createRAGError("RESPONSE_GENERATION_FAILED",
                         <<"Failed to generate response: ">> \o ErrorToString(e),
                         "generation", e))
    /\ MethodFrame

\* analyzeRelevance called with an input that is no string (a number taken
\* from a JSON body): input.substring throws at the first statement of the
\* try, before the cache check, and the catch throws RELEVANCE_ANALYSIS_FAILED
AnalyzeRelevanceNotAString ==
    /\ pc = "idle"
    /\ method.pc = "idle"
    /\ pc' = "threw"
    /\ ncalls' = ncalls + 1
    /\ method' = Throw([NoMethod EXCEPT !.name = "analyzeRelevance"],
          createRAGError("RELEVANCE_ANALYSIS_FAILED",
                         <<"Failed to analyze relevance: ">> \o ErrorToString(NotAStringError),
                         "analysis", NotAStringError))
    /\ UNCHANGED <<config, cache, call, bi, settled, results, inflight, orphans, returned,
                   fromCache, modelCalls, totalModelCalls, totalCandidates, failedChunks,
                   paced, modelScore, firstResult, known>>
    /\ UNCHANGED <<chunkVars, contextVars, parVars, appendVars, put, reqs, route>>

\* the contents handed to mergeContent
MergeTexts == { <<>>, <<"a">> }

NextMethods ==
    \/ method.pc = "idle" /\ RouteCall
    \/ Resolves \/ TimerFires \/ Rejects \/ Late
    \/ AnalyzeRelevanceNotAString
    \/ /\ pc = "idle"
       /\ \E originalContent \in MergeTexts, additionalContent \in MergeTexts :
             mergeContent(originalContent, additionalContent)
       /\ MethodFrame
    \/ \E content \in InvokeContents : MergeInvokeResolves(content)
    \/ \E e \in InvokeErrors : MergeInvokeRejects(e)
    \/ /\ pc = "idle"
       /\ \E n \in 0..1 : \E relevantPages \in DocLists(n) : generateResponse(relevantPages)
       /\ MethodFrame
    \/ \E content \in InvokeContents : GenerateInvokeResolves(content)
    \/ \E e \in InvokeErrors : GenerateInvokeRejects(e)

SpecMethods == Init /\ [][NextMethods]_vars

(***************************************************************************)
(* POST /api/rag serving one request, from the body to the response: the   *)
(* service is constructed from the body's ragConfig, the database is       *)
(* fetched, analyzeRelevance runs, and unless it returns nothing the       *)
(* content of every relevant page is fetched and generateResponse is       *)
(* called.  The API keys are configured.                                   *)
(***************************************************************************)
\* the ragConfig objects of the body: none, a threshold of 0, a limit of 0,
\* values that are not 0, and batch sizes of 0 and below
RagConfigList ==
    << [x \in {} |-> 0],
       [relevanceThreshold |-> 0],
       [maxResults |-> 0],
       [relevanceThreshold |-> 5, maxResults |-> 2, batchSize |-> 1],
       [batchSize |-> 0],
       [batchSize |-> -1] >>

RagQueries == { <<>>, <<"q">> }

RagDatabaseIds == { <<>>, <<"d1">> }

\* the answer of the response sent when no page is relevant
NotFoundAnswer == <<"no page related to the information you are looking for was found">>

\* if (relevantPages.length === 0) that never takes the branch
NoRelevantPages_Never(relevantPages) == FALSE

\* if (relevantPages.length === 0)
NoRelevantPages(relevantPages) == Len(relevantPages) = 0

\* the number of characters of a markdown text of one-character lines
MarkdownLength(lines) == IF Len(lines) = 0 THEN 0 ELSE 2 * Len(lines) - 1

\* page.content || '' of the page getPage returns
FetchedContent(id) ==
    [text |-> id, len |-> MarkdownLength(toMarkdownString(notion[id].blocks)),
     ellipsis |-> FALSE]

\* the results of analyzeRelevance as the handler holds them: the pages of
\* getDatabase carry no content
WithoutContent(list) ==
    [i \in 1..Len(list) |->
        [page |-> [id |-> list[i].page, content |-> [text |-> list[i].page, len |-> 0,
                                                     ellipsis |-> FALSE]],
         relevanceScore |-> list[i].relevanceScore]]

RouteResponds(status, answer, sources, error) ==
    route' = [route EXCEPT !.pc = "responded", !.status = status, !.answer = answer,
                           !.sources = sources, !.error = error]

\* the catch of the handler
RouteFails(details) == RouteResponds(500, <<>>, <<>>, details)

\* the body is read and checked and the service is constructed
RagReceive(query, databaseId, ragConfig) ==
    /\ route.pc = "idle"
    /\ pc = "idle"
    /\ IF query = <<>> \/ databaseId = <<>>
       THEN /\ route' = [route EXCEPT !.pc = "responded", !.status = 400, !.query = query,
                                      !.databaseId = databaseId, !.ragConfig = ragConfig,
                                      !.error = <<"Missing required parameters">>]
            /\ UNCHANGED <<config, cache>>
       ELSE /\ route' = [route EXCEPT !.pc = "getDatabase", !.query = query,
                                      !.databaseId = databaseId, !.ragConfig = ragConfig]
            /\ config' = MergeConfig(ragConfig)
            /\ cache' = EmptyMap
    /\ UNCHANGED <<callVars, chunkVars, contextVars, parVars, appendVars, put, reqs, method>>

\* getDatabase settles; analyzeRelevance is called with the route's options
RagGetDatabaseSettles(ok) ==
    /\ route.pc = "getDatabase"
    /\ IF ok
       THEN /\ analyzeRelevance(route.query, route.databaseId, RouteOptions(route.ragConfig),
                                Cardinality(DOMAIN notion))
            /\ route' = [route EXCEPT !.pc = "analyzeRelevance"]
       ELSE /\ RouteFails(<<"Failed to fetch database">>)
            /\ UNCHANGED ragVars
    /\ UNCHANGED <<chunkVars, contextVars, parVars, appendVars, put, reqs, method>>

\* analyzeRelevance has returned: without a relevant page the fixed answer is
\* sent; otherwise the contents are fetched page by page
RagAnalyzed ==
    /\ route.pc = "analyzeRelevance"
    /\ pc = "returned"
    /\ IF NoRelevantPages(returned)
       THEN RouteResponds(200, NotFoundAnswer, <<>>, <<>>)
       ELSE route' = [route EXCEPT !.pc = "fetching", !.relevantPages = WithoutContent(returned)]
    /\ UNCHANGED <<ragVars, chunkVars, contextVars, parVars, appendVars, put, reqs, method>>

\* setPageContentToPageRelevanceResult of the next relevant page settles;
\* after the last one generateResponse is called
RagFetchPage(ok) ==
    /\ route.pc = "fetching"
    /\ LET i == Len(route.fetched) + 1
           id == route.relevantPages[i].page.id
           pages == [route.relevantPages EXCEPT ![i].page.content = FetchedContent(id)]
       IN  IF ~ok
           THEN /\ RouteFails(<<"Failed to fetch page">>)
                /\ UNCHANGED method
           ELSE IF i < Len(route.relevantPages)
           THEN /\ route' = [route EXCEPT !.relevantPages = pages,
                                           !.fetched = Append(@, id)]
                /\ UNCHANGED method
           ELSE /\ route' = [route EXCEPT !.relevantPages = SortByScore(pages),
                                           !.fetched = Append(@, id),
                                           !.pc = "generateResponse"]
                /\ generateResponse(pages)
    /\ UNCHANGED <<ragVars, chunkVars, contextVars, parVars, appendVars, put, reqs>>

\* generateResponse has returned or thrown; the handler answers
RagGenerated ==
    /\ route.pc = "generateResponse"
    /\ method.pc = "done"
    /\ IF method.thrown > 0
       THEN RouteFails(method.error.message)
       ELSE RouteResponds(200, method.answer, method.sources, <<>>)
    /\ UNCHANGED <<ragVars, chunkVars, contextVars, parVars, appendVars, put, reqs, method>>

NextRag ==
    \/ \E query \in RagQueries, databaseId \in RagDatabaseIds, i \in 1..Len(RagConfigList) :
          RagReceive(query, databaseId, RagConfigList[i])
    \/ \E ok \in BOOLEAN : RagGetDatabaseSettles(ok)
    \/ Resolves \/ TimerFires \/ Rejects \/ Late
    \/ RagAnalyzed
    \/ \E ok \in BOOLEAN : RagFetchPage(ok)
    \/ \E content \in InvokeContents : GenerateInvokeResolves(content)
    \/ \E e \in InvokeErrors : GenerateInvokeRejects(e)
    \/ RagGenerated

InitRag ==
    /\ InitWith(EmptyMap)
    /\ ChunkIdle /\ ContextIdle /\ ParIdle /\ HandlersIdle
    /\ apc = "idle"
    /\ request = NoRequest
    /\ \E n \in 0..MaxAppendPages : notion \in Workspaces(n)
    /\ local = NoLocal
    /\ ops = NoOps
    /\ response = NoResponse

SpecRag == InitRag /\ [][NextRag]_vars

\* every model call settles and every step of the handler that can be taken
\* is taken
FairRag == WF_vars(NextRag)

SpecRagFair == SpecRag /\ FairRag

(***************************************************************************)
(* Two append requests that name the same target page, served at the same  *)
(* time: each handler runs the target branch of the route (getPage,        *)
(* mergeContent, updatePage) and the handlers' steps interleave at the     *)
(* awaits.  A block has an id; the model's answer to the merge prompt is   *)
(* taken to hold the page's text as fetched followed by the new text.      *)
(***************************************************************************)
\* the page both requests name
TargetPage == 1

\* the content of the body of request r
BodyContent(r) == IF r = 1 THEN <<"x">> ELSE <<"y">>

\* the blocks of a converted markdown, appended by request r
NewBlocks(markdown, r) ==
    [i \in 1..Len(markdown) |-> [id |-> <<r, i>>, type |-> "paragraph", text |-> markdown[i]]]

\* blocks.delete({ block_id }): the block is gone from the page, if it was there
WithoutBlock(blocks, id) == SelectSeq(blocks, LAMBDA b : b.id # id)

\* the ids of the blocks blocks.children.list returns
BlockIds(blocks) == [i \in 1..Len(blocks) |-> blocks[i].id]

\* the catch of the handler of request r
TwoFails(r) == reqs' = [reqs EXCEPT ![r].pc = "responded", ![r].status = 500]

\* what a step of these handlers leaves alone
TwoFrame ==
    UNCHANGED <<ragVars, chunkVars, contextVars, parVars, apc, request, local, ops, response,
                put, route, method>>

\* the body of request r is read and checked; getPage(targetPageId) is called
TwoReceive(r) ==
    /\ reqs[r].pc = "idle"
    /\ reqs' = [reqs EXCEPT ![r].pc = "getPage", ![r].content = BodyContent(r)]
    /\ UNCHANGED notion
    /\ TwoFrame

\* getPage settles; mergeContent is called
TwoGetPageSettles(r, ok) ==
    /\ reqs[r].pc = "getPage"
    /\ IF ok
       THEN reqs' = [reqs EXCEPT ![r].pc = "mergeContent",
                                 ![r].originalContent =
                                     toMarkdownString(notion[TargetPage].blocks)]
       ELSE TwoFails(r)
    /\ UNCHANGED notion
    /\ TwoFrame

\* mergeContent settles; updatePage(selectedPageId, { content: mergedContent }) is called
TwoMergeSettles(r, ok) ==
    /\ reqs[r].pc = "mergeContent"
    /\ IF ok
       THEN reqs' = [reqs EXCEPT ![r].pc = "update",
                                 ![r].mergedContent = reqs[r].originalContent \o reqs[r].content]
       ELSE TwoFails(r)
    /\ UNCHANGED notion
    /\ TwoFrame

\* updatePage: pages.update with no property, then the content
TwoUpdateProperties(r, ok) ==
    /\ reqs[r].pc = "update"
    /\ IF ok
       THEN reqs' = [reqs EXCEPT ![r].pc =
                        IF reqs[r].mergedContent # <<>> THEN "list" ELSE "refetch"]
       ELSE TwoFails(r)
    /\ UNCHANGED notion
    /\ TwoFrame

\* updatePageContent: blocks.children.list
TwoListBlocks(r, ok) ==
    /\ reqs[r].pc = "list"
    /\ IF ok
       THEN reqs' = [reqs EXCEPT ![r].listed = BlockIds(notion[TargetPage].blocks),
                                 ![r].pc = IF Len(notion[TargetPage].blocks) > 0
                                           THEN "delete" ELSE "append"]
       ELSE TwoFails(r)
    /\ UNCHANGED notion
    /\ TwoFrame

\* updatePageContent: blocks.delete of the next listed block
TwoDeleteBlock(r, ok) ==
    /\ reqs[r].pc = "delete"
    /\ IF ok
       THEN /\ notion' = [notion EXCEPT ![TargetPage].blocks =
                             WithoutBlock(@, Head(reqs[r].listed))]
            /\ reqs' = [reqs EXCEPT ![r].listed = Tail(@),
                                    ![r].pc = IF Len(reqs[r].listed) > 1
                                              THEN "delete" ELSE "append"]
       ELSE /\ TwoFails(r)
            /\ UNCHANGED notion
    /\ TwoFrame

\* updatePageContent: blocks.children.append of the converted merged text
TwoAppendBlocks(r, ok) ==
    /\ reqs[r].pc = "append"
    /\ IF ok
       THEN /\ notion' = [notion EXCEPT ![TargetPage].blocks =
                             @ \o NewBlocks(reqs[r].mergedContent, r)]
            /\ reqs' = [reqs EXCEPT ![r].pc = "refetch"]
       ELSE /\ TwoFails(r)
            /\ UNCHANGED notion
    /\ TwoFrame

\* updatePage: getPage; the handler sends its success response
TwoRefetch(r, ok) ==
    /\ reqs[r].pc = "refetch"
    /\ IF ok
       THEN reqs' = [reqs EXCEPT ![r].pc = "responded", ![r].status = 200,
                                 ![r].success = TRUE]
       ELSE TwoFails(r)
    /\ UNCHANGED notion
    /\ TwoFrame

NextTwo ==
    \/ \E r \in AppendRequests : TwoReceive(r)
    \/ \E r \in AppendRequests, ok \in BOOLEAN : TwoGetPageSettles(r, ok)
    \/ \E r \in AppendRequests, ok \in BOOLEAN : TwoMergeSettles(r, ok)
    \/ \E r \in AppendRequests, ok \in BOOLEAN : TwoUpdateProperties(r, ok)
    \/ \E r \in AppendRequests, ok \in BOOLEAN : TwoListBlocks(r, ok)
    \/ \E r \in AppendRequests, ok \in BOOLEAN : TwoDeleteBlock(r, ok)
    \/ \E r \in AppendRequests, ok \in BOOLEAN : TwoAppendBlocks(r, ok)
    \/ \E r \in AppendRequests, ok \in BOOLEAN : TwoRefetch(r, ok)

\* the target page as the requests find it, of at most MaxAppendPages blocks
TargetPages ==
    {[title |-> <<"t">>, keywords |-> <<>>, blocks |-> NewBlocks(markdown, 0)] :
        markdown \in UNION {[1..k -> {"a"}] : k \in 0..MaxAppendPages}}

InitTwo ==
    /\ InitWith(EmptyMap)
    /\ ChunkIdle /\ ContextIdle /\ ParIdle
    /\ apc = "idle"
    /\ request = NoRequest
    /\ \E page \in TargetPages : notion = [id \in {TargetPage} |-> page]
    /\ local = NoLocal
    /\ ops = NoOps
    /\ response = NoResponse
    /\ put = NoPut
    /\ reqs = [r \in AppendRequests |-> IdleHandler]
    /\ route = NoRoute
    /\ method = NoMethod

SpecTwo == InitTwo /\ [][NextTwo]_vars

(***************************************************************************)
(* Properties.                                                             *)
(***************************************************************************)
SortedDescending(list) ==
    \A i \in 1..(Len(list) - 1) : list[i].relevanceScore >= list[i + 1].relevanceScore

InUnitInterval(score) == 0 <= score /\ score <= 10

ScoresInUnitInterval(list) ==
    \A i \in 1..Len(list) : InUnitInterval(list[i].relevanceScore)

\* the chunk a page of the running call is in
ChunkOf(page) ==
    CHOOSE k \in 1..Len(call.batches) :
        \E i \in 1..Len(call.batches[k]) : call.batches[k][i] = page

\* the pages of the first k chunks of the running call, in order
RECURSIVE PagesThrough(_)
PagesThrough(k) ==
    IF k <= 0 THEN <<>> ELSE PagesThrough(k - 1) \o call.batches[k]

ResultPages == [i \in 1..Len(results) |-> results[i].page]

Effective == EffectiveOptions(call.options, config)

\* C1: the list analyzeRelevance returns, computed or taken from the cache, is
\* sorted non-increasing by score, is no longer than the effective maxResults
\* and holds only scores at or above the effective threshold.
C1_ReturnedWithinOptions ==
    pc = "returned" =>
        /\ SortedDescending(returned)
        /\ Len(returned) <= Effective.maxResults
        /\ \A i \in 1..Len(returned) : returned[i].relevanceScore >= Effective.threshold

\* C2: every relevance result, whether built from a response, by the inner
\* catch or by the outer catch, and wherever it is held, has a score in [0, 1].
C2_ScoresInUnitInterval ==
    /\ ScoresInUnitInterval(results)
    /\ \A p \in DOMAIN settled : InUnitInterval(settled[p].relevanceScore)
    /\ pc = "returned" => ScoresInUnitInterval(returned)
    /\ \A key \in DOMAIN cache : ScoresInUnitInterval(cache[key])

\* a returned analysis holding a score from a response, a zero from the inner
\* catch and the zeros of a failed chunk
C2_Witness ==
    /\ pc = "returned"
    /\ failedChunks # {}
    /\ \E i \in 1..Len(results) : results[i].relevanceScore = 9
    /\ \E i \in 1..Len(results) :
          /\ results[i].page \notin DOMAIN modelScore
          /\ ChunkOf(results[i].page) \notin failedChunks

\* C3: a page whose model call returned a score keeps that score in the
\* results, whatever happens to the other calls of its chunk.
C3_OthersKeepTheirScore ==
    \A i \in 1..Len(results) :
        results[i].page \in DOMAIN modelScore
            => results[i].relevanceScore = modelScore[results[i].page]

\* C4: the results hold exactly one entry per page of every chunk gone
\* through, in order, failed chunks included; the entries of a failed chunk
\* are zero; a call that scored returns with an entry for every page; and
\* while the call is scoring, the chunk it waits for has a call in flight.
C4_FailedChunkDegradesToZeros ==
    /\ pc = "scoring" => ResultPages = PagesThrough(bi - 1)
    /\ pc = "pacing" => ResultPages = PagesThrough(bi)
    /\ (pc = "returned" /\ ~fromCache) => ResultPages = call.pages
    /\ \A i \in 1..Len(results) :
          ChunkOf(results[i].page) \in failedChunks => results[i].relevanceScore = 0
    /\ pc = "scoring" => \E m \in inflight : m.chunk = bi

\* the first of several chunks failed and the call returned
C4_Witness ==
    /\ pc = "returned"
    /\ 1 \in failedChunks
    /\ Len(call.batches) >= 2
    /\ Len(call.batches[1]) >= 2
    /\ \E i \in 1..Len(results) : results[i].relevanceScore = 9

\* C5: while a call runs, at most batchSize model calls are in flight.
C5_InFlightAtMostBatchSize ==
    pc \in {"scoring", "pacing"} => Cardinality(inflight) <= config.batchSize

\* C6: the model calls in flight all belong to one chunk: a chunk's calls are
\* issued only after every call of the chunk before has settled.
C6_ChunksOneAtATime ==
    \A m1 \in inflight, m2 \in inflight : m1.chunk = m2.chunk

\* C7: the 100 ms delay has run after every chunk that has a successor whose
\* calls are issued, and never runs after the last chunk.
C7_DelayBetweenChunks ==
    /\ \A k \in 1..(bi - 1) : k \in paced
    /\ Len(call.batches) \notin paced
    /\ pc = "pacing" => bi < Len(call.batches)

\* an earlier call of the service had the same input, database and options
SameCallEarlier == CallKey(call) \in known

\* C8: on a caching service, a call whose (input, database id, options) equal
\* those of an earlier call returns the list that call returned and issues no
\* model call.
C8_RepeatedCallServedFromCache ==
    (config.cacheEnabled /\ pc # "idle" /\ SameCallEarlier) =>
        /\ pc = "returned"
        /\ fromCache
        /\ returned = firstResult[CallKey(call)]
        /\ modelCalls = 0
        /\ inflight = {}

\* the second of two identical calls has returned a list the first one scored
C8_Witness ==
    /\ config.cacheEnabled
    /\ pc = "returned"
    /\ SameCallEarlier
    /\ Len(returned) > 0
    /\ totalModelCalls > 0
    /\ modelCalls = 0

\* the names of the properties an options object has
GivenNames(options) == {options[i].k : i \in 1..Len(options)}

\* an earlier call had the same input and database and the same effective
\* options, one of the two calls giving a value the other left to the defaults
SameEffectiveEarlier ==
    \E x \in known :
        /\ x[1] = call.input
        /\ x[2] = call.databaseId
        /\ EffectiveOptions(x[3], config) = Effective
        /\ GivenNames(x[3]) # GivenNames(call.options)

\* the text of the key: operation, input, database id and the options object
\* as it was passed, serialised
KeyText(input, databaseId, options) ==
    <<"relevance", ":">> \o input \o <<"|">> \o databaseId \o <<"|">> \o JsonStringify(options)

SameKeyEarlier ==
    \E x \in known :
        KeyText(x[1], x[2], x[3]) = KeyText(call.input, call.databaseId, call.options)

\* C9 as stated: a call whose effective options equal those of an earlier call
\* on the same input and database, one explicit and one by default, is served
\* from the cache without a model call.
C9_SameEffectiveSharesEntry ==
    (config.cacheEnabled /\ pc # "idle" /\ SameEffectiveEarlier) =>
        /\ pc = "returned"
        /\ fromCache
        /\ modelCalls = 0

\* C9 amended: the key is made of the input, the database id and the options
\* object as passed, serialised.  A call is served from the cache exactly when
\* an earlier call had the same key text; a call that spells out the defaults
\* and a call that leaves them out have different keys, so the later of the
\* two scores every page unless its own key was stored before.
C9_KeyFromOptionsAsPassed ==
    (config.cacheEnabled /\ pc # "idle") =>
        /\ fromCache <=> SameKeyEarlier
        /\ (SameEffectiveEarlier /\ ~SameKeyEarlier) =>
              /\ ~fromCache
              /\ pc = "returned" => modelCalls = Len(call.pages)

\* after a call without options, a call spelling out the defaults has scored
\* its pages
C9_Witness ==
    /\ config.cacheEnabled
    /\ pc = "returned"
    /\ SameEffectiveEarlier
    /\ ~SameKeyEarlier
    /\ ~fromCache
    /\ modelCalls > 0

\* C10: with cacheEnabled false the cache stays empty, no call returns at the
\* cache check, every call that returns has issued one model call per page,
\* and all calls together have issued as many model calls as they were given
\* pages.  (A call that never leaves chunkArray returns nothing and is
\* followed by no other call.)
C10_NoCacheWhenDisabled ==
    ~config.cacheEnabled =>
        /\ DOMAIN cache = {}
        /\ ~fromCache
        /\ pc = "returned" =>
              /\ modelCalls = Len(call.pages)
              /\ totalModelCalls = totalCandidates

\* two identical calls over the same n > 0 pages have issued 2n model calls
C10_Witness ==
    /\ ~config.cacheEnabled
    /\ pc = "returned"
    /\ ncalls = 2
    /\ SameCallEarlier
    /\ Len(call.pages) > 0
    /\ totalModelCalls = 2 * Len(call.pages)
    /\ totalCandidates = 2 * Len(call.pages)

\* C11: a cache entry, once written, is never evicted and lives as long as the
\* process: whatever step the process takes, a request that constructs its
\* service included, every key the cache holds stays readable with the same
\* list.
C11_EntryLivesAsLongAsProcess ==
    [][\A key \in DOMAIN cache :
          CacheHas(cache', key) /\ CacheGet(cache', key) = CacheGet(cache, key)]_vars

\* C12: overlapping calls are not held back by one another.  A call is served
\* from the cache only when the entry was there at its cache check; a call that
\* found no entry, whether or not another call under the same key was running,
\* returns after one model call per page and a result per page; and the entry
\* under a key holds the list of the call that stored under it last.
C12_OverlappingCallsBothMiss ==
    /\ \A p \in Callers :
          /\ callers[p].fromCache => (config.cacheEnabled /\ callers[p].sawEntry)
          /\ (callers[p].pc = "returned" /\ ~callers[p].sawEntry) =>
                /\ ~callers[p].fromCache
                /\ callers[p].issued = Len(callers[p].pages)
                /\ Len(callers[p].results) = Len(callers[p].pages)
    /\ DOMAIN cache = DOMAIN lastSet
    /\ \A key \in DOMAIN lastSet : CacheGet(cache, key) = lastSet[key].list

\* two calls under one key overlapped, both scored their pages, they returned
\* different lists, and the entry holds the list of the one that stored last
C12_Witness ==
    \E p \in Callers, q \in Callers :
        /\ p # q
        /\ config.cacheEnabled
        /\ callers[p].pc = "returned" /\ callers[q].pc = "returned"
        /\ callers[p].cacheKey = callers[q].cacheKey
        /\ callers[q].overlapped
        /\ ~callers[p].fromCache /\ ~callers[q].fromCache
        /\ callers[p].issued > 0 /\ callers[q].issued > 0
        /\ callers[p].returned # callers[q].returned
        /\ lastSet[callers[p].cacheKey].by = p
        /\ CacheGet(cache, callers[p].cacheKey) = callers[p].returned

Ceil(a, b) == (a + b - 1) \div b

RECURSIVE Flatten(_)
Flatten(lists) == IF lists = <<>> THEN <<>> ELSE Head(lists) \o Flatten(Tail(lists))

\* C13: for a whole chunk size n >= 1, chunkArray returns ceil(len/n) chunks, each
\* of 1 to n elements, every chunk but the last of exactly n, and the chunks
\* put end to end are the array in its order.
C13_ChunkArrayPartitions ==
    chunkCall.done =>
        /\ Len(chunks) = Ceil(Len(chunkCall.array), chunkCall.chunkSize)
        /\ \A i \in 1..Len(chunks) :
              /\ 1 <= Len(chunks[i])
              /\ Len(chunks[i]) <= chunkCall.chunkSize
              /\ i < Len(chunks) => Len(chunks[i]) = chunkCall.chunkSize
        /\ Flatten(chunks) = chunkCall.array

\* several chunks, the last one short
C13_Witness ==
    /\ chunkCall.done
    /\ Len(chunks) >= 2
    /\ Len(chunks[Len(chunks)]) < chunkCall.chunkSize
    /\ chunkCall.chunkSize >= 2

\* the characters of the contents of the first j entries of a list
RECURSIVE ContentTotal(_, _)
ContentTotal(list, j) ==
    IF j = 0 THEN 0 ELSE ContentTotal(list, j - 1) + StrLength(list[j].page.content)

\* C14: the contents of the list optimizeContext returns, the cut one counted
\* as the string placed in the list, add up to at most maxLength characters.
C14_OutputWithinMaxLength ==
    context.done => ContentTotal(optimized, Len(optimized)) <= context.maxLength

\* the number of leading entries whose contents fit in the budget together
FittingPrefix(sorted, maxLength) ==
    CHOOSE j \in 0..Len(sorted) :
        /\ ContentTotal(sorted, j) <= maxLength
        /\ \A j2 \in 0..Len(sorted) : ContentTotal(sorted, j2) <= maxLength => j2 <= j

\* a copy of the entry holding the first `remaining` characters and the marker
TruncatedCopy(entry, remaining) ==
    [page |-> [id |-> entry.page.id,
               content |-> [text |-> entry.page.content.text, len |-> remaining,
                            ellipsis |-> TRUE]],
     relevanceScore |-> entry.relevanceScore]

\* the greedy packing of a list already sorted by score
GreedyPacking(sorted, maxLength) ==
    LET j == FittingPrefix(sorted, maxLength)
        remaining == maxLength - ContentTotal(sorted, j)
    IN  SubSeq(sorted, 1, j) \o
        (IF j < Len(sorted) /\ remaining > 100
         THEN <<TruncatedCopy(sorted[j + 1], remaining)>> ELSE <<>>)

\* C15: optimizeContext sorts the pages by score, descending, and returns the
\* greedy packing of the sorted list: the longest prefix whose contents fit in
\* maxLength, then the first page that does not fit, cut to the remaining
\* characters plus the marker, exactly when more than 100 characters remain;
\* no page after that one; the returned list is in descending score order.
C15_GreedyPacking ==
    context.done =>
        /\ SortedDescending(context.pages)
        /\ optimized = GreedyPacking(context.pages, context.maxLength)
        /\ SortedDescending(optimized)

\* a whole page, then a cut page, and a page left out that would have fitted
C15_Witness ==
    /\ context.done
    /\ Len(context.pages) = 3
    /\ Len(optimized) = 2
    /\ ~optimized[1].page.content.ellipsis
    /\ optimized[2].page.content.ellipsis
    /\ StrLength(context.pages[3].page.content) = 0
    /\ context.pages[1].relevanceScore > context.pages[3].relevanceScore

\* the request was answered with the success response
Succeeded == apc = "responded" /\ response.success

\* the request named a target page and passed the input check
TargetGiven == request.targetPageId # NoTarget /\ request.databaseId # <<>> /\ request.content # <<>>

\* the request named no target page and passed the input check
NoTargetGiven == request.targetPageId = NoTarget /\ request.databaseId # <<>> /\ request.content # <<>>

\* C16: a request that names a target page runs no relevance analysis: from
\* the request to the response the database is not fetched, analyzeRelevance
\* is not called and no scoring model call is issued, nothing is generated or
\* created; the handler fetches the target, then calls mergeContent once,
\* then updatePage once on the target, and a success response has seen all
\* three.
C16_TargetSkipsAnalysis ==
    TargetGiven =>
        /\ ops.getDatabase = 0
        /\ ncalls = 0 /\ pc = "idle" /\ totalModelCalls = 0 /\ inflight = {}
        /\ ops.createPageTitle = 0 /\ ops.createPageKeywords = 0 /\ ops.createPage = 0
        /\ ops.getPage = <<request.targetPageId>>
        /\ ops.mergeContent <= 1
        /\ ops.updatePage \in {<<>>, <<request.targetPageId>>}
        /\ ops.updatePage # <<>> => ops.mergeContent = 1
        /\ Succeeded => (ops.mergeContent = 1 /\ ops.updatePage = <<request.targetPageId>>)

\* a request with a target answered with success, the page rewritten
C16_Witness ==
    /\ TargetGiven
    /\ Succeeded
    /\ ops.updatePage = <<request.targetPageId>>
    /\ notion[request.targetPageId].blocks = markdownToBlocks(local.mergedContent)
    /\ local.mergedContent # local.originalContent

\* C17: when a request with target page X is answered with success, the
\* content stored for X is the text mergeContent returned for X's content as
\* fetched and the new content, whatever that text is.
C17_StoredIsMergerOutput ==
    (TargetGiven /\ Succeeded) =>
        toMarkdownString(notion[request.targetPageId].blocks) = local.mergedContent

\* the database had no page when the handler fetched it
CorpusWasEmpty == ops.getDatabase = 1 /\ ~local.failed /\ apc = "responded" /\ call.pages = <<>>

\* C18: a request without target over a database without pages, none of
\* whose calls fails, is answered with success, and a page made of the
\* generated title, the generated keywords and the request's content exists.
C18_EmptyCorpusCreates ==
    (NoTargetGiven /\ CorpusWasEmpty) =>
        /\ response.success
        /\ \E id \in DOMAIN notion :
              /\ notion[id].title = local.newTitle
              /\ toMarkdownString(notion[id].blocks) = request.content

\* the handler created a page and answered with success
EndedInCreate == Succeeded /\ ops.createPage = 1

\* the messages of the success responses that follow the update of a page
UpdateMessages ==
    { <<"added the information to the specified page">>,
      <<"added the information to the most suitable page found by relevance analysis">> }

\* C19: the response of a request that ended in the creation of a page tells
\* so: its message is none of the messages sent after an update, and it
\* carries the id and the title of the new page.
C19_CreateResponseSaysCreated ==
    EndedInCreate =>
        /\ response.message \notin UpdateMessages
        /\ response.pageId = Cardinality(DOMAIN notion)
        /\ response.title = notion[Cardinality(DOMAIN notion)].title

\* the pages of the database when the handler fetched it
CorpusSize == Len(call.pages)

\* the highest score recorded by the analysis
TopScore(list) ==
    CHOOSE x \in {list[i].relevanceScore : i \in 1..Len(list)} :
        \A i \in 1..Len(list) : list[i].relevanceScore <= x

\* C20: without target and over a database with pages, analyzeRelevance is
\* called once, with threshold 0.1 and maxResults 1, on all the pages, and
\* nothing else is issued before it returns.  When it returns no page: no page
\* is fetched, merged or written back, createPage is called at most once and
\* only after both the title and the keywords were generated, and a success
\* response means exactly one page was created.  When it returns a page: it
\* returns one, the one with the highest recorded score; only that page is
\* fetched, merged and written back; nothing is generated or created; and a
\* success response has seen the fetch, the merge and the write-back.
C20_AutoSelectCreatesOrMerges ==
    (NoTargetGiven /\ ncalls > 0) =>
        /\ ncalls = 1
        /\ call.options = <<[k |-> "threshold", v |-> 1], [k |-> "maxResults", v |-> 1]>>
        /\ {call.pages[i] : i \in 1..Len(call.pages)} = DOMAIN notion \ {CorpusSize + 1}
        /\ CorpusSize > 0
        /\ ops.getDatabase = 1
        /\ pc # "returned" =>
              /\ ops.getPage = <<>> /\ ops.mergeContent = 0 /\ ops.updatePage = <<>>
              /\ ops.createPageTitle = 0 /\ ops.createPageKeywords = 0 /\ ops.createPage = 0
        /\ (pc = "returned" /\ returned = <<>>) =>
              /\ ops.getPage = <<>> /\ ops.mergeContent = 0 /\ ops.updatePage = <<>>
              /\ ops.createPageTitle <= 1 /\ ops.createPageKeywords <= 1
              /\ ops.createPage <= 1
              /\ ops.createPage = 1 => ops.generated = {"title", "keywords"}
              /\ Cardinality(DOMAIN notion) <= CorpusSize + 1
              /\ Cardinality(DOMAIN notion) > CorpusSize => ops.createPage = 1
              /\ Succeeded => Cardinality(DOMAIN notion) = CorpusSize + 1
        /\ (pc = "returned" /\ returned # <<>>) =>
              /\ Len(returned) = 1
              /\ returned[1].relevanceScore = TopScore(results)
              /\ returned[1].relevanceScore >= 1
              /\ ops.createPageTitle = 0 /\ ops.createPageKeywords = 0 /\ ops.createPage = 0
              /\ Cardinality(DOMAIN notion) = CorpusSize
              /\ ops.getPage \in {<<>>, <<returned[1].page>>}
              /\ ops.mergeContent <= 1
              /\ ops.updatePage \in {<<>>, <<returned[1].page>>}
              /\ Succeeded =>
                    /\ ops.getPage = <<returned[1].page>>
                    /\ ops.mergeContent = 1
                    /\ ops.updatePage = <<returned[1].page>>
                    /\ response.pageId = returned[1].page

\* of two pages the second scored higher, was selected and was rewritten
C20_Witness ==
    /\ NoTargetGiven
    /\ Succeeded
    /\ CorpusSize = 2
    /\ Len(results) = 2
    /\ results[1].relevanceScore < results[2].relevanceScore
    /\ ops.updatePage = <<2>>
    /\ response.pageId = 2
    /\ notion[2].blocks = markdownToBlocks(local.mergedContent)
    /\ local.mergedContent # <<>>

\* C21: a request whose databaseId or content is missing or empty, with or
\* without a target page, is answered with status 400 at once: no call to
\* Notion, no merge, no analysis and no model call is issued for it.
C21_MissingInputRejected ==
    (apc # "idle" /\ (request.databaseId = <<>> \/ request.content = <<>>)) =>
        /\ apc = "responded"
        /\ response.status = 400
        /\ ~response.success
        /\ ops = NoOps
        /\ local = NoLocal
        /\ ncalls = 0 /\ pc = "idle" /\ totalModelCalls = 0 /\ inflight = {}

\* a request naming a target page and a database, without content, was refused
C21_Witness ==
    /\ apc = "responded"
    /\ request.targetPageId # NoTarget
    /\ request.databaseId # <<>>
    /\ request.content = <<>>
    /\ response.status = 400

\* the title, keywords and content given in the body are what the page holds
AllTookEffect ==
    LET page == notion[put.pageId]
        updateData == put.updateData
    IN  /\ GivenText(updateData, "title") => page.title = updateData.title
        /\ GivenKeywords(updateData) => page.keywords = Join(updateData.keywords, ",")
        /\ GivenText(updateData, "content") =>
              toMarkdownString(page.blocks) = updateData.content

\* C22: updatePage is atomic: when the PUT request is answered, either it
\* succeeded and every update given in the body took effect, or it failed and
\* the page's title, keywords and content are what they were before the call.
C22_UpdatePageAtomic ==
    put.pc = "responded" =>
        \/ put.success /\ AllTookEffect
        \/ ~put.success /\ notion[put.pageId] = put.before

\* the text holds the part, in one piece
Contains(text, part) ==
    \E i \in 0..(Len(text) - Len(part)) : SubSeq(text, i + 1, i + Len(part)) = part

\* the code and the source tag of the errors of a method
ErrorKinds ==
    [analyzeRelevance |-> [code |-> "RELEVANCE_ANALYSIS_FAILED", source |-> "analysis"],
     mergeContent |-> [code |-> "CONTENT_MERGE_FAILED", source |-> "merge"],
     generateResponse |-> [code |-> "RESPONSE_GENERATION_FAILED", source |-> "generation"]]

\* C23: an error thrown by analyzeRelevance, mergeContent or generateResponse
\* carries the code and the source tag of its method and its message holds
\* the message of the error that caused it.  analyzeRelevance throws for a
\* failure outside the scoring of pages and chunks only: a call that throws
\* has issued no model call, and a call whose model calls failed does not
\* throw.
C23_ErrorsCarryCodeAndSource ==
    /\ method.thrown > 0 =>
          /\ method.name \in DOMAIN ErrorKinds
          /\ method.error.code = ErrorKinds[method.name].code
          /\ method.error.source = ErrorKinds[method.name].source
          /\ method.error.details.message # <<>>
          /\ Contains(method.error.message, method.error.details.message)
    /\ pc = "threw" <=> (method.name = "analyzeRelevance" /\ method.thrown > 0)
    /\ pc = "threw" => (totalModelCalls = 0 /\ failedChunks = {})
    /\ failedChunks # {} => (pc \in {"scoring", "pacing", "returned"} /\ method.thrown = 0)

\* mergeContent has thrown after the model call was rejected with a rate limit
C23_Witness ==
    /\ method.pc = "done"
    /\ method.name = "mergeContent"
    /\ method.thrown = 1
    /\ method.error.code = "CONTENT_MERGE_FAILED"
    /\ method.error.details.name = "Error"
    /\ method.error.message =
          <<"Failed to merge content: ", "Error", ": ", "429", " ", "rate limit">>

\* C24: nothing is retried.  A call of mergeContent or generateResponse has
\* invoked the model once, whether it returned or threw, and its caller has
\* seen it throw once when it failed and not at all when it returned.  An
\* analysis has issued one model call for each page of the chunks it has
\* started, failed chunks included, and none for the others.
C24_NoRetries ==
    /\ method.name \in {"mergeContent", "generateResponse"} =>
          /\ method.invoked = 1
          /\ method.pc = "done" =>
                \/ method.thrown = 1 /\ method.error # NoError
                \/ method.thrown = 0 /\ method.error = NoError
          /\ method.pc = "invoking" => method.thrown = 0
    /\ modelCalls <= Len(call.pages)
    /\ pc \in {"scoring", "pacing"} => modelCalls = Len(PagesThrough(bi))
    /\ (pc = "returned" /\ ~fromCache) => modelCalls = Len(call.pages)
    /\ Cardinality({call.pages[i] : i \in 1..Len(call.pages)}) = Len(call.pages)

\* generateResponse has thrown after its one model call was rejected
C24_Witness ==
    /\ method.pc = "done"
    /\ method.name = "generateResponse"
    /\ method.invoked = 1
    /\ method.thrown = 1
    /\ method.error.code = "RESPONSE_GENERATION_FAILED"

\* the analysis of the /api/rag request returned no page
AnalysisFoundNothing == route.pc \in {"analyzeRelevance", "responded"} /\ pc = "returned" /\ returned = <<>>

\* C25: when the analysis of a /api/rag request returns no page, no page
\* content is fetched and generateResponse is not called, and the response is
\* a success carrying a text that says so and an empty list of sources.
C25_NoResultIsSuccess ==
    AnalysisFoundNothing =>
        /\ route.fetched = <<>>
        /\ method = NoMethod
        /\ route.pc = "responded" =>
              /\ route.status = 200
              /\ route.error = <<>>
              /\ route.answer # <<>>
              /\ route.answer = NotFoundAnswer
              /\ route.sources = <<>>

\* every page of a database of two scored under the threshold, and the
\* request was answered
C25_Witness ==
    /\ route.pc = "responded"
    /\ pc = "returned"
    /\ returned = <<>>
    /\ Len(results) = 2
    /\ modelCalls = 2
    /\ route.status = 200

\* C26: an analyzeRelevance call that was made comes to an end, by returning
\* or by throwing, whatever batchSize the request's ragConfig gave the
\* service, as long as every model call settles.
C26_AnalyzeRelevanceTerminates == (ncalls > 0) ~> (pc \in {"returned", "threw"})

\* the value the request supplied, or the default of the service's config
SuppliedOrDefault(ragConfig, name) ==
    IF name \in DOMAIN ragConfig THEN ragConfig[name] ELSE DefaultConfig[name]

\* C30: the threshold and the limit the analysis of a /api/rag request works
\* with are the relevanceThreshold and maxResults of the request's ragConfig
\* when it supplies them, 0 included, and otherwise the defaults of the
\* service's config.
C30_RouteOptionsAsSupplied ==
    (route.pc # "idle" /\ ncalls > 0) =>
        /\ Effective.threshold = SuppliedOrDefault(route.ragConfig, "relevanceThreshold")
        /\ Effective.maxResults = SuppliedOrDefault(route.ragConfig, "maxResults")

\* C27: calls that differ in the query, the database id or the options have
\* different keys, separator characters in the query or the id or not; so a
\* call that is served from the cache was preceded by a call with the same
\* query, database id and options.
C27_KeyInjective ==
    pc # "idle" =>
        /\ \A x \in known :
              x # CallKey(call) =>
                  generateCacheKey("relevance", x[1], x[2], x[3]) # call.cacheKey
        /\ (pc = "returned" /\ fromCache) => CallKey(call) \in known

\* the text stored for the target page
StoredText == toMarkdownString(notion[TargetPage].blocks)

\* C28: when two requests that append to the same page were served at the
\* same time and both were answered with success, the page's stored content
\* holds the content of both bodies.
C28_BothAdditionsKept ==
    (\A r \in AppendRequests : reqs[r].pc = "responded" /\ reqs[r].success) =>
        \A r \in AppendRequests : Contains(StoredText, BodyContent(r))

\* C29: on a caching service, the list of a pass in which a chunk failed and
\* was given zero scores is not stored: when such a pass returns, the cache
\* holds nothing under its key.
C29_DegradedPassNotCached ==
    (config.cacheEnabled /\ pc = "returned" /\ ~fromCache /\ failedChunks # {}) =>
        ~CacheHas(cache, call.cacheKey)

====
